---------------------------- MODULE Spec2Model ----------------------------
(***************************************************************************)
(* Verification model of the conversation orchestration engine:            *)
(*   - the advanced chat POST handler (app/api/chat/advanced/route.ts),    *)
(*   - the staged thinking pipeline (LangGraphThinkingPipeline),           *)
(*   - the planning-stage decision extraction,                             *)
(*   - the summary strategy of ConversationMemoryManager.                  *)
(*                                                                         *)
(* The specifications of the module, over one set of variables:            *)
(*   Spec         one turn submitted to the advanced chat POST             *)
(*   SpecPlan     planApproach's flag extraction over bounded reply texts  *)
(*   SpecMem      getConversationContext under the summary strategy        *)
(*   SpecOpt      optimizeMemory                                           *)
(*   SpecChunk    createDocumentChunks                                     *)
(*   SpecKb       uploadDocument, processDocument, deleteDocument          *)
(*   SpecQuery    queryKnowledgeBase                                       *)
(*   SpecLlm      OpenRouterLLM.invoke (SpecLlmFair: with its timer)       *)
(*   SpecAcc      the access checks of the advanced chat POST, GET, PUT    *)
(*   SpecSearch   shouldPerformWebSearch and the search POST               *)
(*   SpecConsumer the client's reader of the advanced response stream      *)
(***************************************************************************)
EXTENDS Integers, Sequences, FiniteSets, TLC

VARIABLES
    \* ---- one turn of the advanced chat POST ----
    advancedThinking,         \* request body flag
    rpc,                      \* position of the POST handler
    httpResult,               \* what the caller has been handed as the HTTP response
    ppc,                      \* position of graph.invoke in the pipeline
    thinkingSteps,            \* ThinkingState.thinkingSteps
    messages,                 \* ThinkingState.messages (replies appended by the stages)
    needsKnowledgeBase,       \* ThinkingState.needsKnowledgeBase
    needsWebSearch,           \* ThinkingState.needsWebSearch
    knowledgeBaseReferences,  \* ThinkingState.knowledgeBaseReferences
    webSearchResults,         \* ThinkingState.webSearchResults
    finalResponse,            \* ThinkingState.finalResponse
    retrievalFailed,          \* set of conditional stages whose lookup threw
    observed,                 \* Steps handed to onStepComplete, in call order
    currentThinkingSteps,     \* the callback's closure array in the route
    writes,                   \* update() calls issued on assistantMessageRef, in issue order
    persisted,                \* the assistant message document in the store
    stream,                   \* lines enqueued on the ReadableStream controller
    streamState,              \* "none" | "open" | "closed" | "errored"
    lateEnqueue,              \* steps whose controller.enqueue ran on a closed/errored stream
    \* ---- planning-stage decision extraction ----
    planText,                 \* the planning reply text (sequence of characters)
    planFrags,                \* number of fragments the text was built from
    planDecision,             \* flags extracted from planText, or NoDecision
    \* ---- summary-strategy conversation memory ----
    storedMessages,           \* chats/{chatId}/messages, in timestamp order
    memory,                   \* chats/{chatId}/memory summary records, in createdAt order
    maxTokens,                \* ConversationMemoryManager.maxTokens
    mpc,                      \* position of getConversationContext
    depth,                    \* recursive invocations of getSummaryBufferContext so far
    summariesInCall,          \* summaries generated by the running call
    context,                  \* the context of the latest computation
    estimate,                 \* totalTokens of the latest computation, -1 before the first
    triggerEstimate,          \* totalTokens that triggered the latest summarization, -1 if none
    summarizedIds,            \* ids of the messages given to the latest summarization
    summarizedEver,           \* ids of the messages given to any earlier summarization
    previousReturn,           \* what the latest call returned, while no message was stored since
    \* ---- optimizeMemory ----
    memoryStrategy,           \* ConversationMemoryManager.memoryStrategy
    opc,                      \* position of optimizeMemory
    oldSummaries,             \* snapshot.docs.slice(0, -2) of the running call
    metaSummary,              \* length of the consolidated text the Completion Client returned, -1 if none
    pendingDeletes,           \* createdAt of the records whose delete() is in flight
    memoryBefore,             \* the memory collection when the call started
    optLlmCalls,              \* Completion Client calls made by the call
    \* ---- createDocumentChunks ----
    docContent,               \* the text being chunked (sequence of characters)
    cpc,                      \* position of createDocumentChunks
    chunks,                   \* the chunks array
    startPosition,            \* the loop variable startPosition
    \* ---- the knowledge base of one user ----
    kbDocs,                   \* users/{uid}/knowledgeBase: document id -> record
    kbBlobs,                  \* ids of the documents whose blob is in storage
    chunkRecords,             \* document id -> number of records in its chunks subcollection
    created,                  \* document records created so far (ids and upload times)
    upc,                      \* position of uploadDocument
    upFile,                   \* the file being uploaded
    upDocId,                  \* documentId of the running upload, NoDoc before it is created
    upError,                  \* where and why the running upload failed
    upBefore,                 \* the store when the running upload was called
    dpc,                      \* position of deleteDocument
    delDocId,                 \* documentId of the running deletion
    delRemoved,               \* what the running deletion has removed, in order
    delBefore,                \* the store when the running deletion was called
    \* ---- queryKnowledgeBase ----
    qpc,                      \* position of queryKnowledgeBase
    queryArgs,                \* the query string and the limit of the latest call
    queryResult,              \* ids of the documents the latest call returned, in order
    \* ---- OpenRouterLLM.invoke ----
    lpc,                      \* position of invoke
    llmRequest,               \* the request body of the running invoke
    llmLog,                   \* fetches issued, responses received and waits made, in order
    llmOutcome,               \* what invoke returned or threw, NoOutcome while it runs
    \* ---- the handlers of the advanced chat endpoint, as seen by the store ----
    apc,                      \* position of the running handler
    accRequest,               \* the request: method, the caller's verified identity, body userId
    accChat,                  \* the chats/{chatId} document
    accOps,                   \* store operations the handler has performed, in order
    accStatus,                \* HTTP status of the response, 0 while the handler runs
    \* ---- the search endpoint ----
    spc,                      \* position of the search POST
    searchQuery,              \* body.query (sequence of characters)
    searchFrags,              \* number of fragments the query was built from
    serperKey,                \* process.env.SERPER_API_KEY is set
    searchDecision,           \* what shouldPerformWebSearch returned, "none" before the call
    providerCalls,            \* requests sent to the external search provider
    searchResponse,           \* the response of the endpoint, NoSearchResponse while it runs
    \* ---- the client's consumer of the advanced response stream ----
    cnpc,                     \* position of the read loop
    sentLines,                \* the lines the server enqueued, in order
    wire,                     \* bytes of the response body not yet handed to reader.read()
    streamEnd,                \* how the server ends the stream: "closed" | "errored"
    buffer,                   \* the loop's buffer (sequence of characters)
    handled,                  \* the lines JSON.parse accepted, in order
    parseErrors,              \* the lines JSON.parse threw on, in order
    \* ---- the caller's conversationHistory array ----
    conversationHistory,      \* the array getConversationContext returned to the POST
    messagesAliased           \* ThinkingState.messages is that same array object

turnVars == <<advancedThinking, rpc, httpResult, ppc, thinkingSteps, messages,
              needsKnowledgeBase, needsWebSearch, knowledgeBaseReferences,
              webSearchResults, finalResponse, retrievalFailed, observed,
              currentThinkingSteps, writes, persisted, stream, streamState,
              lateEnqueue>>
planVars == <<planText, planFrags, planDecision>>
memVars  == <<storedMessages, memory, maxTokens, mpc, depth, summariesInCall,
              context, estimate, triggerEstimate, summarizedIds, summarizedEver,
              previousReturn>>
optVars  == <<memoryStrategy, opc, oldSummaries, metaSummary, pendingDeletes,
              memoryBefore, optLlmCalls>>
\* the state of the knowledge-side operations, idle during a turn
chunkVars == <<docContent, cpc, chunks, startPosition>>
kbVars   == <<kbDocs, kbBlobs, chunkRecords, created, upc, upFile, upDocId,
              upError, upBefore, dpc, delDocId, delRemoved, delBefore>>
queryVars == <<qpc, queryArgs, queryResult>>
llmVars  == <<lpc, llmRequest, llmLog, llmOutcome>>
\* the state of the operations outside the turn and the knowledge base
accVars  == <<apc, accRequest, accChat, accOps, accStatus>>
searchVars == <<spc, searchQuery, searchFrags, serperKey, searchDecision,
                providerCalls, searchResponse>>
consumerVars == <<cnpc, sentLines, wire, streamEnd, buffer, handled, parseErrors>>
histVars == <<conversationHistory, messagesAliased>>
auxVars  == <<llmVars, accVars, searchVars, consumerVars, histVars>>
extVars  == <<optVars, chunkVars, kbVars, queryVars, auxVars>>
vars     == <<turnVars, planVars, memVars, extVars>>

-----------------------------------------------------------------------------
(* Bounds of the model                                                     *)

\* fragments a planning reply is built from
MaxFrags == 4
\* results the web-search collaborator returns
MaxWebResults == 2
\* messages stored in the conversation
MaxStored == 2
\* summary records the memory collection may hold
MaxSummaries == 2
\* recursive invocations of getSummaryBufferContext followed within one call
MaxDepth == 2

-----------------------------------------------------------------------------
(* Strings are sequences of one-character strings.                         *)

KB_MARKER ==
    <<"K","N","O","W","L","E","D","G","E","_","B","A","S","E",":"," ","Y","E","S">>
WEB_MARKER ==
    <<"W","E","B","_","S","E","A","R","C","H",":"," ","Y","E","S">>

F_KB      == <<"K","N","O","W","L","E","D","G","E","_","B","A","S","E",":"," ">>
F_KBtight == <<"K","N","O","W","L","E","D","G","E","_","B","A","S","E",":">>
F_WEB     == <<"W","E","B","_","S","E","A","R","C","H",":"," ">>
F_YES     == <<"Y","E","S">>
F_NO      == <<"N","O">>
F_yes     == <<"y","e","s">>
F_SLASH   == <<"/">>
F_NL      == <<"\n">>

Fragments == {F_KB, F_KBtight, F_WEB, F_YES, F_NO, F_yes, F_SLASH, F_NL}

RECURSIVE IndexOfFrom(_, _, _)
\* String.prototype.indexOf(m, k): first position >= k (0-based) at which m occurs, else -1
IndexOfFrom(s, m, k) ==
    IF k + Len(m) > Len(s) THEN -1
    ELSE IF SubSeq(s, k + 1, k + Len(m)) = m THEN k
    ELSE IndexOfFrom(s, m, k + 1)

\* String.prototype.includes
Includes(s, m) == IndexOfFrom(s, m, 0) # -1

NeedsKnowledgeBase_web(responseText) == Includes(responseText, WEB_MARKER)
\* const needsKnowledgeBase = responseText.includes('KNOWLEDGE_BASE: YES')
NeedsKnowledgeBase(responseText) == Includes(responseText, KB_MARKER)

\* const needsWebSearch = responseText.includes('WEB_SEARCH: YES')
NeedsWebSearch(responseText) == Includes(responseText, WEB_MARKER)

\* planning replies the Completion Client returns in the turn model
PlanReplies ==
    { F_KB \o F_NO  \o F_NL \o F_WEB \o F_NO,
      F_KB \o F_YES \o F_NL \o F_WEB \o F_NO,
      F_KB \o F_NO  \o F_NL \o F_WEB \o F_YES,
      F_KB \o F_YES \o F_NL \o F_WEB \o F_YES,
      F_KB \o F_YES \o F_SLASH \o F_NO,
      F_yes }


-----------------------------------------------------------------------------
(* The thinking pipeline: LangGraphThinkingPipeline                        *)

StepTypes == {"analysis", "planning", "knowledge_query", "web_search",
              "synthesis", "reasoning"}

\* a ThinkingStep: its stepType and what its content is
Step(kind, content) == [stepType |-> kind, content |-> content]

NoStep == Step("none", "none")

\* knowledge_query / web_search step of the try branch
FoundStep(kind) == Step(kind, "found")

ErrorStep_silent(kind) == Step(kind, "found")
\* knowledge_query / web_search step of the catch branch ("Error querying ...")
ErrorStep(kind) == Step(kind, "error")

\* kbManager.queryKnowledgeBase(state.userQuery, 3)
KbLimit == 3

\* buildGraph: the stage that follows planApproach
AfterPlan(needsKB, needsWS) ==
    IF needsKB THEN "kb" ELSE IF needsWS THEN "web" ELSE "synth"

AfterKb_skipWeb(needsWS) == "synth"
\* buildGraph: the stage that follows queryKnowledgeBase
AfterKb(needsWS) == IF needsWS THEN "web" ELSE "synth"

\* update() issued on assistantMessageRef; the data is taken when update() is called
Write(kind, steps, step) ==
    [kind |-> kind, steps |-> steps, step |-> step, status |-> "inflight"]

\* lines of the response stream
StepLine(step) ==
    [type |-> "thinking_step", steps |-> <<step>>, response |-> ""]
FinalLine(steps, response) ==
    [type |-> "final_response", steps |-> steps, response |-> response]

\* onStepComplete(thinkingStep) as the route defines it, up to its first await:
\* push the step, issue the update carrying the array
CallbackIssue(step) ==
    /\ observed' = Append(observed, step)
    /\ currentThinkingSteps' = Append(currentThinkingSteps, step)

pipeVars == <<ppc, thinkingSteps, messages, needsKnowledgeBase, needsWebSearch,
              knowledgeBaseReferences, webSearchResults, finalResponse,
              retrievalFailed>>

otherVars == <<planVars, memVars, extVars>>
\* the same without the caller's array, for the steps that handle it
turnRest == <<planVars, memVars, optVars, chunkVars, kbVars, queryVars, llmVars,
              accVars, searchVars, consumerVars>>

\* conversations the memory manager may hand to the POST
MaxHistory == 2
Histories == UNION {[1..n -> {"turn"}] : n \in 0..MaxHistory}

\* 'messages: [...state.messages, response]': a new array
SpreadMessages_push(msgs, response) ==
    [array |-> Append(msgs, response), inPlace |-> TRUE]
SpreadMessages(msgs, response) ==
    [array |-> Append(msgs, response), inPlace |-> FALSE]

\* a stage returns its messages; an array changed in place is changed for
\* everyone holding it
StageMessages(response) ==
    LET r == SpreadMessages(messages, response) IN
      /\ messages' = r.array
      /\ conversationHistory' =
            IF r.inPlace /\ messagesAliased THEN r.array ELSE conversationHistory
      /\ messagesAliased' = (messagesAliased /\ r.inPlace)

\* executeThinking rejects: the catch of start() errors the stream
PipelineFail(stage) ==
    /\ rpc = "pipeline"
    /\ ppc = stage
    /\ ppc' = "failed"
    /\ rpc' = "errored"
    /\ streamState' = "errored"
    /\ UNCHANGED <<advancedThinking, httpResult, thinkingSteps, messages,
                   needsKnowledgeBase, needsWebSearch, knowledgeBaseReferences,
                   webSearchResults, finalResponse, retrievalFailed, observed,
                   currentThinkingSteps, writes, persisted, stream, lateEnqueue>>
    /\ UNCHANGED otherVars

\* memoryManager.getConversationContext() resolves; the advanced branch creates
\* the stream and returns it as the response, the other branch goes on to fetch
GetContextOk ==
    /\ rpc = "context"
    /\ conversationHistory' \in Histories
    /\ UNCHANGED messagesAliased
    /\ IF advancedThinking
          THEN /\ rpc' = "placeholder"
               /\ httpResult' = "stream"
               /\ streamState' = "open"
          ELSE /\ rpc' = "simple"
               /\ UNCHANGED <<httpResult, streamState>>
    /\ UNCHANGED <<advancedThinking, pipeVars, observed, currentThinkingSteps,
                   writes, persisted, stream, lateEnqueue>>
    /\ UNCHANGED turnRest

\* getConversationContext rejects: outer catch, 500 with the failure object
GetContextFail ==
    /\ rpc = "context"
    /\ rpc' = "json_fail"
    /\ httpResult' = "failure_object"
    /\ UNCHANGED <<advancedThinking, pipeVars, observed, currentThinkingSteps,
                   writes, persisted, stream, streamState, lateEnqueue>>
    /\ UNCHANGED otherVars

\* start(): the placeholder assistant message is added, executeThinking begins
CreatePlaceholder ==
    /\ rpc = "placeholder"
    /\ persisted' = [exists |-> TRUE, content |-> "", thinkingSteps |-> <<>>,
                     langGraphState |-> "processing"]
    /\ rpc' = "pipeline"
    /\ ppc' = "analyze"
    \* executeThinking: 'messages: conversationHistory', the caller's array itself
    /\ messages' = conversationHistory
    /\ messagesAliased' = TRUE
    /\ UNCHANGED conversationHistory
    /\ UNCHANGED <<advancedThinking, httpResult, thinkingSteps,
                   needsKnowledgeBase, needsWebSearch, knowledgeBaseReferences,
                   webSearchResults, finalResponse, retrievalFailed, observed,
                   currentThinkingSteps, writes, stream, streamState, lateEnqueue>>
    /\ UNCHANGED turnRest

\* analyzeQuery, the Completion Client answering
AnalyzeOk ==
    /\ rpc = "pipeline"
    /\ ppc = "analyze"
    /\ LET step == Step("analysis", "reply") IN
        /\ CallbackIssue(step)
        /\ writes' = Append(writes, Write("step", currentThinkingSteps', step))
        /\ thinkingSteps' = Append(thinkingSteps, step)
    /\ StageMessages("analysis")
    /\ ppc' = "plan"
    /\ UNCHANGED <<advancedThinking, rpc, httpResult, needsKnowledgeBase,
                   needsWebSearch, knowledgeBaseReferences, webSearchResults,
                   finalResponse, retrievalFailed, persisted, stream,
                   streamState, lateEnqueue>>
    /\ UNCHANGED turnRest

\* planApproach, the Completion Client answering responseText
PlanOk(responseText) ==
    /\ rpc = "pipeline"
    /\ ppc = "plan"
    /\ needsKnowledgeBase' = NeedsKnowledgeBase(responseText)
    /\ needsWebSearch' = NeedsWebSearch(responseText)
    /\ LET step == Step("planning", "reply") IN
        /\ CallbackIssue(step)
        /\ writes' = Append(writes, Write("step", currentThinkingSteps', step))
        /\ thinkingSteps' = Append(thinkingSteps, step)
    /\ StageMessages("planning")
    /\ ppc' = AfterPlan(needsKnowledgeBase', needsWebSearch')
    /\ UNCHANGED <<advancedThinking, rpc, httpResult, knowledgeBaseReferences,
                   webSearchResults, finalResponse, retrievalFailed, persisted,
                   stream, streamState, lateEnqueue>>
    /\ UNCHANGED turnRest

\* queryKnowledgeBase, try branch: n documents found
KbOk(n) ==
    /\ rpc = "pipeline"
    /\ ppc = "kb"
    /\ thinkingSteps' = Append(thinkingSteps, FoundStep("knowledge_query"))
    /\ knowledgeBaseReferences' = [i \in 1..n |-> i]
    /\ ppc' = AfterKb(needsWebSearch)
    /\ UNCHANGED <<advancedThinking, rpc, httpResult, messages, needsKnowledgeBase,
                   needsWebSearch, webSearchResults, finalResponse, retrievalFailed,
                   observed, currentThinkingSteps, writes, persisted, stream,
                   streamState, lateEnqueue>>
    /\ UNCHANGED otherVars

\* queryKnowledgeBase, catch branch: the lookup threw
KbFail ==
    /\ rpc = "pipeline"
    /\ ppc = "kb"
    /\ thinkingSteps' = Append(thinkingSteps, ErrorStep("knowledge_query"))
    /\ knowledgeBaseReferences' = <<>>
    /\ retrievalFailed' = retrievalFailed \cup {"knowledge_query"}
    /\ ppc' = AfterKb(needsWebSearch)
    /\ UNCHANGED <<advancedThinking, rpc, httpResult, messages, needsKnowledgeBase,
                   needsWebSearch, webSearchResults, finalResponse, observed,
                   currentThinkingSteps, writes, persisted, stream, streamState,
                   lateEnqueue>>
    /\ UNCHANGED otherVars

\* performWebSearch, try branch: the search answered with n results
\* (a body without results gives results || [], the case n = 0)
WebOk(n) ==
    /\ rpc = "pipeline"
    /\ ppc = "web"
    /\ thinkingSteps' = Append(thinkingSteps, FoundStep("web_search"))
    /\ webSearchResults' = [i \in 1..n |-> i]
    /\ ppc' = "synth"
    /\ UNCHANGED <<advancedThinking, rpc, httpResult, messages, needsKnowledgeBase,
                   needsWebSearch, knowledgeBaseReferences, finalResponse,
                   retrievalFailed, observed, currentThinkingSteps, writes,
                   persisted, stream, streamState, lateEnqueue>>
    /\ UNCHANGED otherVars

\* performWebSearch, catch branch: fetch threw or the status was not ok
WebFail ==
    /\ rpc = "pipeline"
    /\ ppc = "web"
    /\ thinkingSteps' = Append(thinkingSteps, ErrorStep("web_search"))
    /\ webSearchResults' = <<>>
    /\ retrievalFailed' = retrievalFailed \cup {"web_search"}
    /\ ppc' = "synth"
    /\ UNCHANGED <<advancedThinking, rpc, httpResult, messages, needsKnowledgeBase,
                   needsWebSearch, knowledgeBaseReferences, finalResponse, observed,
                   currentThinkingSteps, writes, persisted, stream, streamState,
                   lateEnqueue>>
    /\ UNCHANGED otherVars

\* synthesizeInformation, the Completion Client answering
SynthOk ==
    /\ rpc = "pipeline"
    /\ ppc = "synth"
    /\ thinkingSteps' = Append(thinkingSteps, Step("synthesis", "reply"))
    /\ StageMessages("synthesis")
    /\ ppc' = "respond"
    /\ UNCHANGED <<advancedThinking, rpc, httpResult, needsKnowledgeBase,
                   needsWebSearch, knowledgeBaseReferences, webSearchResults,
                   finalResponse, retrievalFailed, observed, currentThinkingSteps,
                   writes, persisted, stream, streamState, lateEnqueue>>
    /\ UNCHANGED turnRest

\* generateResponse, the Completion Client answering; executeThinking returns and
\* start() issues the final update of the assistant message
RespondOk ==
    /\ rpc = "pipeline"
    /\ ppc = "respond"
    /\ LET step == Step("reasoning", "label") IN
        /\ CallbackIssue(step)
        /\ thinkingSteps' = Append(thinkingSteps, step)
        /\ writes' = writes \o <<Write("step", currentThinkingSteps', step),
                                 Write("final", thinkingSteps', NoStep)>>
    /\ finalResponse' = "answer"
    /\ StageMessages("response")
    /\ ppc' = "done"
    /\ rpc' = "finalUpdate"
    /\ UNCHANGED <<advancedThinking, httpResult, needsKnowledgeBase, needsWebSearch,
                   knowledgeBaseReferences, webSearchResults, retrievalFailed,
                   persisted, stream, streamState, lateEnqueue>>
    /\ UNCHANGED turnRest

\* the store applies one of the updates in flight; independent commits of one
\* client are applied in the order the store receives them
StoreApply(i) ==
    /\ i \in DOMAIN writes
    /\ writes[i].status = "inflight"
    /\ writes' = [writes EXCEPT ![i].status = "applied"]
    /\ persisted' =
         IF writes[i].kind = "final"
            THEN [persisted EXCEPT !.content = finalResponse,
                                   !.thinkingSteps = writes[i].steps,
                                   !.langGraphState = "completed"]
            ELSE [persisted EXCEPT !.thinkingSteps = writes[i].steps]
    /\ UNCHANGED <<advancedThinking, rpc, httpResult, pipeVars, observed,
                   currentThinkingSteps, stream, streamState, lateEnqueue>>
    /\ UNCHANGED otherVars

\* the await of a callback's update resolves: the callback enqueues its line
\* (controller.enqueue throws on a stream that is closed or errored)
StepUpdateResolved(i) ==
    /\ i \in DOMAIN writes
    /\ writes[i].kind = "step"
    /\ writes[i].status = "applied"
    /\ writes' = [writes EXCEPT ![i].status = "resolved"]
    /\ IF streamState = "open"
          THEN /\ stream' = Append(stream, StepLine(writes[i].step))
               /\ UNCHANGED lateEnqueue
          ELSE /\ lateEnqueue' = Append(lateEnqueue, writes[i].step)
               /\ UNCHANGED stream
    /\ UNCHANGED <<advancedThinking, rpc, httpResult, pipeVars, observed,
                   currentThinkingSteps, persisted, streamState>>
    /\ UNCHANGED otherVars

\* the await of the final update resolves: final_response is enqueued and the
\* stream closed
FinalUpdateResolved(i) ==
    /\ rpc = "finalUpdate"
    /\ i \in DOMAIN writes
    /\ writes[i].kind = "final"
    /\ writes[i].status = "applied"
    /\ writes' = [writes EXCEPT ![i].status = "resolved"]
    /\ stream' = Append(stream, FinalLine(thinkingSteps, finalResponse))
    /\ streamState' = "closed"
    /\ rpc' = "closed"
    /\ UNCHANGED <<advancedThinking, httpResult, pipeVars, observed,
                   currentThinkingSteps, persisted, lateEnqueue>>
    /\ UNCHANGED otherVars

\* non-advanced branch: the completion fetch answers ok, optional web search,
\* the JSON response carries the answer and the (empty) step trace
SimpleOk(n) ==
    /\ rpc = "simple"
    /\ finalResponse' = "answer"
    /\ webSearchResults' = [i \in 1..n |-> i]
    /\ rpc' = "json_ok"
    /\ httpResult' = "answer_object"
    /\ UNCHANGED <<advancedThinking, ppc, thinkingSteps, messages,
                   needsKnowledgeBase, needsWebSearch, knowledgeBaseReferences,
                   retrievalFailed, observed, currentThinkingSteps, writes,
                   persisted, stream, streamState, lateEnqueue>>
    /\ UNCHANGED otherVars

\* non-advanced branch: the completion fetch is not ok or throws: outer catch
SimpleFail ==
    /\ rpc = "simple"
    /\ rpc' = "json_fail"
    /\ httpResult' = "failure_object"
    /\ UNCHANGED <<advancedThinking, pipeVars, observed, currentThinkingSteps,
                   writes, persisted, stream, streamState, lateEnqueue>>
    /\ UNCHANGED otherVars

NoDecision == [parsed |-> FALSE, needsKnowledgeBase |-> FALSE, needsWebSearch |-> FALSE]

PlanIdle ==
    /\ planText = <<>>
    /\ planFrags = 0
    /\ planDecision = NoDecision

\* no call has returned since the latest stored message
NoReturn == [valid |-> FALSE, context |-> <<>>]

MemIdle ==
    /\ storedMessages = <<>>
    /\ memory = <<>>
    /\ maxTokens = 0
    /\ mpc = "off"
    /\ depth = 0
    /\ summariesInCall = 0
    /\ context = <<>>
    /\ estimate = -1
    /\ triggerEstimate = -1
    /\ summarizedIds = {}
    /\ summarizedEver = {}
    /\ previousReturn = NoReturn

OptIdle ==
    /\ memoryStrategy = "simple"
    /\ opc = "off"
    /\ oldSummaries = <<>>
    /\ metaSummary = -1
    /\ pendingDeletes = {}
    /\ memoryBefore = <<>>
    /\ optLlmCalls = 0

ChunkIdle ==
    /\ docContent = <<>>
    /\ cpc = "off"
    /\ chunks = <<>>
    /\ startPosition = 0

\* no document id, no file, no failure
NoDoc == 0
NoFile == [type |-> "", size |-> 0]
NoError == [at |-> "", reason |-> <<>>]
NoStore == [docs |-> <<>>, blobs |-> {}, chunkRecords |-> <<>>]

\* documents the model follows
MaxDocs == 1
DocIds == 1..MaxDocs

KbIdle ==
    /\ kbDocs = <<>>
    /\ kbBlobs = {}
    /\ chunkRecords = [d \in DocIds |-> 0]
    /\ created = 0
    /\ upc = "off"
    /\ upFile = NoFile
    /\ upDocId = NoDoc
    /\ upError = NoError
    /\ upBefore = NoStore
    /\ dpc = "off"
    /\ delDocId = NoDoc
    /\ delRemoved = <<>>
    /\ delBefore = NoStore

NoQuery == [query |-> <<>>, limit |-> 0]

QueryIdle ==
    /\ qpc = "off"
    /\ queryArgs = NoQuery
    /\ queryResult = <<>>

NoRequest == <<>>
NoOutcome == [kind |-> "none"]

LlmIdle ==
    /\ lpc = "off"
    /\ llmRequest = NoRequest
    /\ llmLog = <<>>
    /\ llmOutcome = NoOutcome

NoUser == ""
NoChat == [exists |-> FALSE, participants |-> {}, createdBy |-> NoUser]
NoAccRequest == [method |-> "", caller |-> NoUser, userId |-> NoUser, complete |-> FALSE]

AccIdle ==
    /\ apc = "off"
    /\ accRequest = NoAccRequest
    /\ accChat = NoChat
    /\ accOps = <<>>
    /\ accStatus = 0

NoSearchResponse == [status |-> 0, results |-> 0, searchPerformed |-> FALSE]

SearchIdle ==
    /\ spc = "off"
    /\ searchQuery = <<>>
    /\ searchFrags = 0
    /\ serperKey = FALSE
    /\ searchDecision = "none"
    /\ providerCalls = 0
    /\ searchResponse = NoSearchResponse

ConsumerIdle ==
    /\ cnpc = "off"
    /\ sentLines = <<>>
    /\ wire = <<>>
    /\ streamEnd = "closed"
    /\ buffer = <<>>
    /\ handled = <<>>
    /\ parseErrors = <<>>

HistIdle ==
    /\ conversationHistory = <<>>
    /\ messagesAliased = FALSE

AuxIdle == LlmIdle /\ AccIdle /\ SearchIdle /\ ConsumerIdle /\ HistIdle

ExtIdle == OptIdle /\ ChunkIdle /\ KbIdle /\ QueryIdle /\ AuxIdle

TurnIdle ==
    /\ advancedThinking = FALSE
    /\ rpc = "off"
    /\ httpResult = "none"
    /\ ppc = "idle"
    /\ thinkingSteps = <<>>
    /\ messages = <<>>
    /\ needsKnowledgeBase = FALSE
    /\ needsWebSearch = FALSE
    /\ knowledgeBaseReferences = <<>>
    /\ webSearchResults = <<>>
    /\ finalResponse = ""
    /\ retrievalFailed = {}
    /\ observed = <<>>
    /\ currentThinkingSteps = <<>>
    /\ writes = <<>>
    /\ persisted = [exists |-> FALSE, content |-> "", thinkingSteps |-> <<>>,
                    langGraphState |-> "none"]
    /\ stream = <<>>
    /\ streamState = "none"
    /\ lateEnqueue = <<>>

\* an authenticated participant has submitted a turn; executeThinking's initialState
Init ==
    /\ advancedThinking \in BOOLEAN
    /\ rpc = "context"
    /\ httpResult = "none"
    /\ ppc = "idle"
    /\ thinkingSteps = <<>>
    /\ messages = <<>>
    /\ needsKnowledgeBase = FALSE
    /\ needsWebSearch = FALSE
    /\ knowledgeBaseReferences = <<>>
    /\ webSearchResults = <<>>
    /\ finalResponse = ""
    /\ retrievalFailed = {}
    /\ observed = <<>>
    /\ currentThinkingSteps = <<>>
    /\ writes = <<>>
    /\ persisted = [exists |-> FALSE, content |-> "", thinkingSteps |-> <<>>,
                    langGraphState |-> "none"]
    /\ stream = <<>>
    /\ streamState = "none"
    /\ lateEnqueue = <<>>
    /\ PlanIdle
    /\ MemIdle
    /\ ExtIdle

Next ==
    \/ GetContextOk
    \/ GetContextFail
    \/ CreatePlaceholder
    \/ AnalyzeOk
    \/ \E t \in PlanReplies : PlanOk(t)
    \/ \E n \in 0..KbLimit : KbOk(n)
    \/ KbFail
    \/ \E n \in 0..MaxWebResults : WebOk(n)
    \/ WebFail
    \/ SynthOk
    \/ RespondOk
    \/ \E stage \in {"analyze", "plan", "synth", "respond"} : PipelineFail(stage)
    \/ \E i \in 1..Len(writes) : StoreApply(i)
    \/ \E i \in 1..Len(writes) : StepUpdateResolved(i)
    \/ \E i \in 1..Len(writes) : FinalUpdateResolved(i)
    \/ \E n \in 0..MaxWebResults : SimpleOk(n)
    \/ SimpleFail

Spec == Init /\ [][Next]_vars

-----------------------------------------------------------------------------
(* Planning-stage decision extraction over bounded reply texts             *)

\* the Completion Client's planning reply grows by one fragment
PlanAppend(f) ==
    /\ planDecision = NoDecision
    /\ planFrags < MaxFrags
    /\ planText' = planText \o f
    /\ planFrags' = planFrags + 1
    /\ UNCHANGED <<planDecision, turnVars, memVars, extVars>>

\* planApproach extracts the two flags from the reply
PlanParse ==
    /\ planDecision = NoDecision
    /\ planDecision' = [parsed |-> TRUE,
                        needsKnowledgeBase |-> NeedsKnowledgeBase(planText),
                        needsWebSearch |-> NeedsWebSearch(planText)]
    /\ UNCHANGED <<planText, planFrags, turnVars, memVars, extVars>>

InitPlan == TurnIdle /\ MemIdle /\ PlanIdle /\ ExtIdle

NextPlan ==
    \/ \E f \in Fragments : PlanAppend(f)
    \/ PlanParse

SpecPlan == InitPlan /\ [][NextPlan]_vars

-----------------------------------------------------------------------------
(* Properties of the turn                                                  *)

\* position of a stage kind in the pipeline's stage order
Rank(kind) ==
    CASE kind = "analysis"        -> 1
      [] kind = "planning"        -> 2
      [] kind = "knowledge_query" -> 3
      [] kind = "web_search"      -> 4
      [] kind = "synthesis"       -> 5
      [] kind = "reasoning"       -> 6

Kinds(steps) == [i \in 1..Len(steps) |-> steps[i].stepType]

ExpectedKinds ==
    <<"analysis", "planning">>
      \o (IF needsKnowledgeBase THEN <<"knowledge_query">> ELSE <<>>)
      \o (IF needsWebSearch THEN <<"web_search">> ELSE <<>>)
      \o <<"synthesis", "reasoning">>

StrictStageOrder(kinds) ==
    \A i, j \in 1..Len(kinds) : i < j => Rank(kinds[i]) < Rank(kinds[j])

\* C1: a completed run returns exactly analysis, planning, knowledge_query iff
\* needsKnowledgeBase, web_search iff needsWebSearch, synthesis, reasoning; at
\* every moment the steps so far are in strict stage order, no kind twice.
C1_StageOrder ==
    /\ StrictStageOrder(Kinds(thinkingSteps))
    /\ ppc = "done" => Kinds(thinkingSteps) = ExpectedKinds

C1_Witness ==
    /\ ppc = "done"
    /\ needsKnowledgeBase
    /\ needsWebSearch
    /\ Len(thinkingSteps) = 6

StepLines == SelectSeq(stream, LAMBDA l : l.type = "thinking_step")

\* C2: the thinking_step lines of the response stream are in strict stage
\* order under every interleaving of the callbacks' store updates with the
\* continuing pipeline.
C2_StreamStageOrder ==
    StrictStageOrder([i \in 1..Len(StepLines) |-> StepLines[i].steps[1].stepType])

PendingStepCallbacks ==
    {i \in DOMAIN writes : writes[i].kind = "step" /\ writes[i].status # "resolved"}

\* C3: final_response is the last line: when it is enqueued every thinking_step
\* of the turn has been enqueued, and nothing is enqueued or attempted after it.
C3_FinalIsLast ==
    streamState = "closed" =>
        /\ PendingStepCallbacks = {}
        /\ lateEnqueue = <<>>
        /\ stream[Len(stream)].type = "final_response"

\* C4: every stage hands its Step to the observer when it completes and before
\* the next stage starts, so the observer has seen exactly the steps produced.
C4_ObserverSeesEveryStep ==
    observed = thinkingSteps

AllWritesApplied ==
    \A i \in DOMAIN writes : writes[i].status # "inflight"

\* C5: once the turn has completed and every store write issued for it has been
\* applied, the persisted thinkingSteps equal the pipeline's step sequence.
C5_PersistedStepsComplete ==
    (ppc = "done" /\ AllWritesApplied) => persisted.thinkingSteps = thinkingSteps

TurnOver == rpc \in {"closed", "errored", "json_ok", "json_fail"}

ReceivedFinalAnswer ==
    \/ httpResult = "answer_object"
    \/ /\ httpResult = "stream"
       /\ \E i \in DOMAIN stream :
            /\ stream[i].type = "final_response"
            /\ stream[i].steps = thinkingSteps
            /\ stream[i].response = "answer"

ReceivedFailureObject == httpResult = "failure_object"

\* C6: for every turn the caller receives exactly one of a complete final answer
\* with the full step trace, or the structured failure object.
C6_AnswerOrFailureObject ==
    TurnOver => (ReceivedFinalAnswer /\ ~ReceivedFailureObject)
                  \/ (ReceivedFailureObject /\ ~ReceivedFinalAnswer)

ResultList(kind) ==
    IF kind = "knowledge_query" THEN knowledgeBaseReferences ELSE webSearchResults

StepsOfKind(kind) == SelectSeq(thinkingSteps, LAMBDA st : st.stepType = kind)

RetrievalNonFatal ==
    /\ \A kind \in retrievalFailed :
         /\ StepsOfKind(kind) = <<Step(kind, "error")>>
         /\ ResultList(kind) = <<>>
    /\ (ppc = "done" /\ retrievalFailed # {}) => finalResponse = "answer"

\* C7: a failed knowledge-base lookup or web search is never fatal: the stage
\* hands over to the next stage, the step list holds exactly one step of the
\* failed kind with error content, the result list is empty, and the run that
\* completes returns the final answer.
C7_RetrievalFailureNonFatal ==
    /\ []RetrievalNonFatal
    /\ [][(ppc \in {"kb", "web"}) => (ppc' \in {"kb", "web", "synth"})]_vars

C7_Witness ==
    /\ ppc = "done"
    /\ retrievalFailed = {"knowledge_query", "web_search"}
    /\ finalResponse = "answer"

-----------------------------------------------------------------------------
(* Properties of the planning-stage decision extraction                    *)

\* the marker occurs somewhere in the text
Carries(text, marker) ==
    \E i \in 1..Len(text) :
        /\ i + Len(marker) - 1 <= Len(text)
        /\ \A j \in 1..Len(marker) : text[i + j - 1] = marker[j]

\* C8: needsKnowledgeBase is true exactly when the reply carries
\* KNOWLEDGE_BASE: YES and needsWebSearch exactly when it carries
\* WEB_SEARCH: YES, each decided independently of the other marker.
C8_PlanFlags ==
    planDecision.parsed =>
        /\ planDecision.needsKnowledgeBase <=> Carries(planText, KB_MARKER)
        /\ planDecision.needsWebSearch <=> Carries(planText, WEB_MARKER)

C8_Witness ==
    /\ planDecision.parsed
    /\ planText = F_KB \o F_YES
    /\ planDecision.needsKnowledgeBase
    /\ ~planDecision.needsWebSearch

-----------------------------------------------------------------------------
(* Conversation memory, summary strategy: ConversationMemoryManager        *)

\* content lengths (characters) of stored messages and of generated summaries
MsgLens == {8, 40}
SummaryLens == {0, 9, 40}
\* token budgets a manager is constructed with (chatData.maxMemoryTokens)
Budgets == {4, 12, 25}
Roles == {"user", "assistant", "system"}

\* length of the literal 'Previous conversation summary: '
SummaryPrefixLen == 31

\* the empty string as a message id
NoMessageId == 0

RECURSIVE SumLen(_)
SumLen(entries) ==
    IF entries = <<>> THEN 0 ELSE Head(entries).len + SumLen(Tail(entries))

\* estimateTokenCount: Math.ceil(totalChars / 4)
estimateTokenCount(entries) == (SumLen(entries) + 3) \div 4

\* the newest summary record (orderBy createdAt desc, limit 1)
HasSummary == memory # <<>>
LatestMemory ==
    CHOOSE m \in {memory[i] : i \in DOMAIN memory} :
        \A i \in DOMAIN memory : memory[i].createdAt <= m.createdAt

\* the synthetic AI turn carrying the summary
SummaryEntry(m) ==
    [kind |-> "summary", id |-> m.createdAt, len |-> SummaryPrefixLen + m.content]

MessageEntry(msg) == [kind |-> "message", id |-> msg.id, len |-> msg.len]

\* getRecentUnsummarizedMessages: all messages in timestamp order, skipping the
\* ids up to the latest summary's endMessageId when that id is not empty, and
\* dropping roles other than user / collaborator / assistant
getRecentUnsummarizedMessages ==
    LET startAfterMessageId ==
            IF HasSummary THEN LatestMemory.endMessageId ELSE NoMessageId
        kept == SelectSeq(storedMessages, LAMBDA msg :
                    /\ ~(startAfterMessageId # NoMessageId /\ msg.id <= startAfterMessageId)
                    /\ msg.role \in {"user", "collaborator", "assistant"})
    IN [i \in 1..Len(kept) |-> MessageEntry(kept[i])]

RecentOf(ctx) == SelectSeq(ctx, LAMBDA e : e.kind = "message")

turnAndPlan == <<turnVars, planVars, extVars>>

\* the chat system stores a message of the conversation; the document id is
\* modelled by the message's position in timestamp order
StoreMessage(role, len) ==
    /\ mpc = "idle"
    /\ Len(storedMessages) < MaxStored
    /\ storedMessages' = Append(storedMessages,
           [id |-> Len(storedMessages) + 1, role |-> role, len |-> len])
    /\ previousReturn' = NoReturn
    /\ UNCHANGED <<memory, maxTokens, mpc, depth, summariesInCall, context,
                   estimate, triggerEstimate, summarizedIds, summarizedEver>>
    /\ UNCHANGED turnAndPlan

\* a request constructs the manager with the chat's budget and calls
\* getConversationContext (summary strategy)
StartCall(budget) ==
    /\ mpc = "idle"
    /\ maxTokens' = budget
    /\ mpc' = "compute"
    /\ depth' = 0
    /\ summariesInCall' = 0
    /\ context' = <<>>
    /\ estimate' = -1
    /\ triggerEstimate' = -1
    /\ summarizedIds' = {}
    /\ UNCHANGED <<storedMessages, memory, summarizedEver, previousReturn>>
    /\ UNCHANGED turnAndPlan

\* the budget test of getSummaryBufferContext
OverBudget_inclusive(totalTokens, budget) == totalTokens >= budget

OverBudget(totalTokens, budget) == totalTokens > budget

\* getSummaryBufferContext up to the budget test: latest summary, unsummarized
\* messages, estimate; under budget the context is returned
ComputeContext ==
    /\ mpc = "compute"
    /\ LET msgs == (IF HasSummary THEN <<SummaryEntry(LatestMemory)>> ELSE <<>>)
                     \o getRecentUnsummarizedMessages
           totalTokens == estimateTokenCount(msgs)
       IN /\ context' = msgs
          /\ estimate' = totalTokens
          /\ mpc' = IF OverBudget(totalTokens, maxTokens) THEN "summarize" ELSE "returned"
    /\ UNCHANGED <<storedMessages, memory, maxTokens, depth, summariesInCall,
                   triggerEstimate, summarizedIds, summarizedEver, previousReturn>>
    /\ UNCHANGED turnAndPlan

\* createConversationSummary(recentMessages), the Completion Client answering a
\* summary of s characters, then the recursive getSummaryBufferContext();
\* with no messages it returns without a summary
SummarizeOk(s) ==
    /\ mpc = "summarize"
    /\ depth < MaxDepth
    /\ LET recent == RecentOf(context) IN
         IF recent = <<>>
            THEN UNCHANGED <<memory, summariesInCall, triggerEstimate, summarizedIds,
                             summarizedEver>>
            ELSE /\ Len(memory) < MaxSummaries
                 /\ memory' = Append(memory,
                        [content |-> s,
                         createdAt |-> Len(memory) + 1,
                         endMessageId |-> NoMessageId,
                         messageCount |-> Len(recent)])
                 /\ summariesInCall' = summariesInCall + 1
                 /\ triggerEstimate' = estimate
                 /\ summarizedIds' = {recent[i].id : i \in DOMAIN recent}
                 /\ summarizedEver' = summarizedEver \cup summarizedIds
    /\ depth' = depth + 1
    /\ mpc' = "compute"
    /\ UNCHANGED <<storedMessages, maxTokens, context, estimate, previousReturn>>
    /\ UNCHANGED turnAndPlan

\* createConversationSummary: the Completion Client fails and the failure
\* propagates out of getConversationContext
SummarizeFail ==
    /\ mpc = "summarize"
    /\ RecentOf(context) # <<>>
    /\ mpc' = "failed"
    /\ UNCHANGED <<storedMessages, memory, maxTokens, depth, summariesInCall,
                   context, estimate, triggerEstimate, summarizedIds,
                   summarizedEver, previousReturn>>
    /\ UNCHANGED turnAndPlan

\* the caller has its context (or its failure); the manager and the locals of
\* the call are discarded
FinishCall ==
    /\ mpc \in {"returned", "failed"}
    /\ mpc' = "idle"
    /\ depth' = 0
    /\ summariesInCall' = 0
    /\ context' = <<>>
    /\ estimate' = -1
    /\ triggerEstimate' = -1
    /\ summarizedIds' = {}
    /\ maxTokens' = 0
    /\ summarizedEver' = summarizedEver \cup summarizedIds
    /\ previousReturn' = IF mpc = "returned"
                            THEN [valid |-> TRUE, context |-> context]
                            ELSE NoReturn
    /\ UNCHANGED <<storedMessages, memory>>
    /\ UNCHANGED turnAndPlan

InitMem ==
    /\ TurnIdle
    /\ PlanIdle
    /\ ExtIdle
    /\ storedMessages = <<>>
    /\ memory = <<>>
    /\ maxTokens = 0
    /\ mpc = "idle"
    /\ depth = 0
    /\ summariesInCall = 0
    /\ context = <<>>
    /\ estimate = -1
    /\ triggerEstimate = -1
    /\ summarizedIds = {}
    /\ summarizedEver = {}
    /\ previousReturn = NoReturn

NextMem ==
    \/ \E role \in Roles, len \in MsgLens : StoreMessage(role, len)
    \/ \E budget \in Budgets : StartCall(budget)
    \/ ComputeContext
    \/ \E s \in SummaryLens : SummarizeOk(s)
    \/ SummarizeFail
    \/ FinishCall

SpecMem == InitMem /\ [][NextMem]_vars

-----------------------------------------------------------------------------
(* Properties of the summary strategy                                      *)

Recomputed == summariesInCall >= 1 /\ mpc \in {"summarize", "returned"}

\* C9: getConversationContext terminates: on overflow one summary is generated,
\* and the recomputation finds the unsummarized tail empty and returns without
\* generating a further summary.
C9_OneSummaryThenReturn ==
    /\ summariesInCall <= 1
    /\ Recomputed => (RecentOf(context) = <<>> /\ mpc = "returned")

\* C10: after a summary has been generated, the next context computation gives
\* the new summary as a single synthetic turn followed only by messages after
\* the summarized range, with an estimate strictly less than the one that
\* triggered the summarization.
C10_ContextShrinks ==
    Recomputed =>
        /\ context # <<>>
        /\ context[1] = SummaryEntry(LatestMemory)
        /\ \A i \in 2..Len(context) :
             /\ context[i].kind = "message"
             /\ context[i].id \notin summarizedIds
        /\ estimate < triggerEstimate

\* C11: summaries do not overlap: a message that was part of the input of one
\* generated summary is never part of the input of a later generated summary.
C11_SummariesNonOverlapping == summarizedIds \cap summarizedEver = {}

\* a call whose first computation found the estimate within the budget
UnderBudgetCall == mpc = "returned" /\ depth = 0

\* C12: while the estimate of the stored summary plus messages does not exceed
\* the budget, retrieval is idempotent: a call creates no memory record and
\* never reaches the Completion Client (it returns from its first computation),
\* and with no message stored since the previous call it returns the same
\* context as that call.
C12_RetrievalIdempotent ==
    /\ []((UnderBudgetCall /\ previousReturn.valid)
             => context = previousReturn.context)
    /\ [][(mpc = "compute" /\ depth = 0 /\ estimate' <= maxTokens)
             => (mpc' = "returned" /\ memory' = memory /\ summariesInCall' = 0)]_vars

\* a second under-budget call over a stored summary and a stored message
C12_Witness ==
    /\ UnderBudgetCall
    /\ previousReturn.valid
    /\ HasSummary
    /\ RecentOf(context) # <<>>
    /\ context = previousReturn.context
    /\ estimate <= maxTokens

-----------------------------------------------------------------------------
(* optimizeMemory: consolidation of old summary records                    *)

\* summary records the memory collection holds when optimizeMemory is called
MaxOptSummaries == 5

\* lengths of the texts of the stored summaries and of the consolidated text
OptSummaryLens == {9, 40}
Strategies == {"simple", "summary", "vector"}

\* 'snapshot.size > 3'
OptimizeThreshold == 3
\* 'slice(0, -2)': the records kept
KeepLast == 2

\* the memory collections a conversation can have accumulated: one record per
\* generated summary, createdAt increasing
SummaryStores ==
    UNION {[1..n -> OptSummaryLens] : n \in 0..MaxOptSummaries}

StoreOf(lens) ==
    [i \in 1..Len(lens) |->
        [content |-> lens[i], createdAt |-> i, endMessageId |-> NoMessageId,
         messageCount |-> 1]]

\* snapshot.docs.slice(0, -2) on the records in ascending createdAt order
OldSummaries_keepOne(docs) ==
    IF Len(docs) > 1 THEN SubSeq(docs, 1, Len(docs) - 1) ELSE <<>>

OldSummaries(docs) ==
    IF Len(docs) > KeepLast THEN SubSeq(docs, 1, Len(docs) - KeepLast) ELSE <<>>

RECURSIVE SumMessageCount(_)
SumMessageCount(docs) ==
    IF docs = <<>> THEN 0 ELSE Head(docs).messageCount + SumMessageCount(Tail(docs))

\* new Date().toISOString() at the time of the add: later than every record
NowAfter(docs) ==
    IF docs = <<>> THEN 1
    ELSE 1 + (CHOOSE c \in {docs[i].createdAt : i \in DOMAIN docs} :
                 \A i \in DOMAIN docs : docs[i].createdAt <= c)

optRest == <<turnVars, planVars, storedMessages, maxTokens, mpc, depth,
             summariesInCall, context, estimate, triggerEstimate, summarizedIds,
             summarizedEver, previousReturn, chunkVars, kbVars, queryVars,
             auxVars>>

\* optimizeMemory is called on a manager of the given strategy; any strategy
\* but 'summary' returns at once
OptimizeStart(strategy) ==
    /\ opc = "idle"
    /\ memoryStrategy' = strategy
    /\ memoryBefore' = memory
    /\ opc' = IF strategy # "summary" THEN "done" ELSE "query"
    /\ UNCHANGED <<memory, oldSummaries, metaSummary, pendingDeletes, optLlmCalls>>
    /\ UNCHANGED optRest

\* the summary records in ascending createdAt order; more than 3 are consolidated
OptimizeQuery ==
    /\ opc = "query"
    /\ IF Len(memory) > OptimizeThreshold
          THEN /\ oldSummaries' = OldSummaries(memory)
               /\ opc' = "llm"
          ELSE /\ oldSummaries' = <<>>
               /\ opc' = "done"
    /\ UNCHANGED <<memory, memoryStrategy, metaSummary, pendingDeletes,
                   memoryBefore, optLlmCalls>>
    /\ UNCHANGED optRest

\* the Completion Client returns the consolidated text; one delete() per old
\* record is issued
OptimizeLlmOk(s) ==
    /\ opc = "llm"
    /\ metaSummary' = s
    /\ optLlmCalls' = optLlmCalls + 1
    /\ pendingDeletes' = {oldSummaries[i].createdAt : i \in DOMAIN oldSummaries}
    /\ opc' = "deleting"
    /\ UNCHANGED <<memory, memoryStrategy, oldSummaries, memoryBefore>>
    /\ UNCHANGED optRest

\* the Completion Client fails; optimizeMemory rejects
OptimizeLlmFail ==
    /\ opc = "llm"
    /\ optLlmCalls' = optLlmCalls + 1
    /\ opc' = "failed"
    /\ UNCHANGED <<memory, memoryStrategy, oldSummaries, metaSummary,
                   pendingDeletes, memoryBefore>>
    /\ UNCHANGED optRest

\* the store applies one of the deletes in flight (also after Promise.all has
\* rejected: the other deletes are not cancelled)
OptimizeDeleteApply(id) ==
    /\ opc \in {"deleting", "failed"}
    /\ id \in pendingDeletes
    /\ memory' = SelectSeq(memory, LAMBDA m : m.createdAt # id)
    /\ pendingDeletes' = pendingDeletes \ {id}
    /\ UNCHANGED <<memoryStrategy, opc, oldSummaries, metaSummary, memoryBefore,
                   optLlmCalls>>
    /\ UNCHANGED optRest

\* one of the deletes fails; Promise.all rejects and optimizeMemory with it
OptimizeDeleteFail(id) ==
    /\ opc = "deleting"
    /\ id \in pendingDeletes
    /\ pendingDeletes' = pendingDeletes \ {id}
    /\ opc' = "failed"
    /\ UNCHANGED <<memory, memoryStrategy, oldSummaries, metaSummary,
                   memoryBefore, optLlmCalls>>
    /\ UNCHANGED optRest

\* every delete has resolved; the consolidated record is added
OptimizeAddOk ==
    /\ opc = "deleting"
    /\ pendingDeletes = {}
    /\ memory' = Append(memory,
           [content |-> metaSummary,
            createdAt |-> NowAfter(memoryBefore),
            endMessageId |-> NoMessageId,
            messageCount |-> SumMessageCount(oldSummaries)])
    /\ opc' = "done"
    /\ UNCHANGED <<memoryStrategy, oldSummaries, metaSummary, pendingDeletes,
                   memoryBefore, optLlmCalls>>
    /\ UNCHANGED optRest

\* the add of the consolidated record fails
OptimizeAddFail ==
    /\ opc = "deleting"
    /\ pendingDeletes = {}
    /\ opc' = "failed"
    /\ UNCHANGED <<memory, memoryStrategy, oldSummaries, metaSummary,
                   pendingDeletes, memoryBefore, optLlmCalls>>
    /\ UNCHANGED optRest

InitOpt ==
    /\ TurnIdle
    /\ PlanIdle
    /\ storedMessages = <<>>
    /\ \E lens \in SummaryStores : memory = StoreOf(lens)
    /\ maxTokens = 0
    /\ mpc = "off"
    /\ depth = 0
    /\ summariesInCall = 0
    /\ context = <<>>
    /\ estimate = -1
    /\ triggerEstimate = -1
    /\ summarizedIds = {}
    /\ summarizedEver = {}
    /\ previousReturn = NoReturn
    /\ memoryStrategy = "simple"
    /\ opc = "idle"
    /\ oldSummaries = <<>>
    /\ metaSummary = -1
    /\ pendingDeletes = {}
    /\ memoryBefore = <<>>
    /\ optLlmCalls = 0
    /\ ChunkIdle
    /\ KbIdle
    /\ QueryIdle
    /\ AuxIdle

NextOpt ==
    \/ \E strategy \in Strategies : OptimizeStart(strategy)
    \/ OptimizeQuery
    \/ \E s \in OptSummaryLens : OptimizeLlmOk(s)
    \/ OptimizeLlmFail
    \/ \E id \in pendingDeletes : OptimizeDeleteApply(id)
    \/ \E id \in pendingDeletes : OptimizeDeleteFail(id)
    \/ OptimizeAddOk
    \/ OptimizeAddFail

SpecOpt == InitOpt /\ [][NextOpt]_vars

\* the records of a collection, and its two most recent by creation time
RecordsOf(docs) == {docs[i] : i \in DOMAIN docs}
TwoMostRecent(docs) ==
    {m \in RecordsOf(docs) :
        Cardinality({o \in RecordsOf(docs) : o.createdAt > m.createdAt}) < 2}

\* C13: optimizeMemory, when more than 3 summary records exist, replaces all
\* but the 2 most recent by exactly one consolidated record, so that exactly 3
\* remain and the 2 most recent pre-existing ones are untouched; with 3 or
\* fewer records, or a strategy other than 'summary', no record is created or
\* deleted and the Completion Client is not called.
C13_ConsolidationKeepsThree ==
    (opc = "done") =>
        IF memoryStrategy = "summary" /\ Len(memoryBefore) > 3
           THEN /\ Len(memory) = 3
                /\ TwoMostRecent(memoryBefore) \subseteq RecordsOf(memory)
                /\ Cardinality(RecordsOf(memory) \ RecordsOf(memoryBefore)) = 1
                /\ RecordsOf(memory) \cap RecordsOf(memoryBefore)
                     = TwoMostRecent(memoryBefore)
           ELSE /\ memory = memoryBefore
                /\ optLlmCalls = 0

\* five records consolidated into three
C13_Witness ==
    /\ opc = "done"
    /\ memoryStrategy = "summary"
    /\ Len(memoryBefore) = 5
    /\ Len(memory) = 3
    /\ optLlmCalls = 1

-----------------------------------------------------------------------------
(* createDocumentChunks: splitting a text into overlapping chunks          *)

\* characters of the longest text
MaxTextLen == 2000
\* chunks pushed before the model stops following the loop
MaxChunks == 5

chunkSize == 1000
chunkOverlap == 200

\* 'undefined' as a chunk id
NoChunkId == -1

\* a text of n characters; the character at position p (from 0) is p + 1
TextOf(n) == [i \in 1..n |-> i]

Min2(a, b) == IF a < b THEN a ELSE b
Max2(a, b) == IF a > b THEN a ELSE b

\* String.prototype.slice(start, end): a negative index counts from the end
Slice(text, start, end) ==
    LET n    == Len(text)
        from == IF start < 0 THEN Max2(n + start, 0) ELSE Min2(start, n)
        to   == IF end < 0 THEN Max2(n + end, 0) ELSE Min2(end, n)
    IN IF from >= to THEN <<>> ELSE SubSeq(text, from + 1, to)

\* 'startPosition = endPosition - chunkOverlap'
NextStart_noOverlap(endPosition) == endPosition

NextStart(endPosition) == endPosition - chunkOverlap

\* encryptMessage(text, key): the ciphertext of text under the manager's key
encryptMessage(text) == [ciphertext |-> text]

\* the chunk the loop body builds at startPosition
ChunkAt(text, start, chunkIndex) ==
    LET endPosition  == Min2(start + chunkSize, Len(text))
        chunkContent == Slice(text, start, endPosition)
    IN [chunkIndex      |-> chunkIndex,
        content         |-> encryptMessage(chunkContent),
        startPosition   |-> start,
        endPosition     |-> endPosition,
        tokenCount      |-> (Len(chunkContent) + 3) \div 4,
        previousChunkId |-> IF chunkIndex > 0 THEN chunkIndex - 1 ELSE NoChunkId,
        nextChunkId     |-> IF endPosition < Len(text) THEN chunkIndex + 1 ELSE NoChunkId]

chunkRest == <<turnVars, planVars, memVars, optVars, kbVars, queryVars,
               auxVars>>

\* one iteration of 'while (startPosition < content.length)'
ChunkIterate ==
    /\ cpc = "loop"
    /\ startPosition < Len(docContent)
    /\ Len(chunks) < MaxChunks
    /\ LET chunk == ChunkAt(docContent, startPosition, Len(chunks)) IN
         /\ chunks' = Append(chunks, chunk)
         /\ startPosition' = NextStart(chunk.endPosition)
    /\ UNCHANGED <<docContent, cpc>>
    /\ UNCHANGED chunkRest

\* the loop condition is false: 'return chunks'
ChunkReturn ==
    /\ cpc = "loop"
    /\ ~(startPosition < Len(docContent))
    /\ cpc' = "returned"
    /\ UNCHANGED <<docContent, chunks, startPosition>>
    /\ UNCHANGED chunkRest

InitChunk ==
    /\ TurnIdle
    /\ PlanIdle
    /\ MemIdle
    /\ OptIdle
    /\ KbIdle
    /\ QueryIdle
    /\ AuxIdle
    /\ \E n \in 0..MaxTextLen : docContent = TextOf(n)
    /\ cpc = "loop"
    /\ chunks = <<>>
    /\ startPosition = 0

NextChunk ==
    \/ ChunkIterate
    \/ ChunkReturn

SpecChunk == InitChunk /\ [][NextChunk]_vars

LastChunk == chunks[Len(chunks)]

\* C14: every chunk that has a successor ends chunkOverlap after the start of
\* its successor, and the final chunk, the one without nextChunkId, has no
\* successor.
C14_ChunkAdjacency ==
    /\ \A i \in 1..(Len(chunks) - 1) :
          chunks[i].endPosition - chunkOverlap = chunks[i + 1].startPosition
    /\ \A i \in DOMAIN chunks :
          chunks[i].nextChunkId = NoChunkId => i = Len(chunks)

\* the characters of text at the positions p with s <= p < e
Span(text, s, e) ==
    IF Max2(s, 0) >= Min2(e, Len(text)) THEN <<>>
    ELSE SubSeq(text, Max2(s, 0) + 1, Min2(e, Len(text)))

Drop(seq, k) == IF Len(seq) <= k THEN <<>> ELSE SubSeq(seq, k + 1, Len(seq))

\* the spans in index order, each later one without its overlapping prefix
RECURSIVE Reconstruct(_, _, _)
Reconstruct(text, list, i) ==
    IF i > Len(list) THEN <<>>
    ELSE LET span == Span(text, list[i].startPosition, list[i].endPosition)
         IN (IF i = 1 THEN span ELSE Drop(span, chunkOverlap))
              \o Reconstruct(text, list, i + 1)

\* the list has its final chunk, the one the loop gives no nextChunkId
ChunkListComplete == chunks # <<>> /\ LastChunk.nextChunkId = NoChunkId

-----------------------------------------------------------------------------
(* KnowledgeBaseManager: upload and ingestion of a document                *)

\* '50 * 1024 * 1024'
MaxFileSize == 52428800

DOCX == "application/vnd.openxmlformats-officedocument.wordprocessingml.document"
AllowedTypes == {"application/pdf", DOCX, "application/msword", "text/plain",
                 "text/markdown"}

\* the files a caller uploads: accepted and rejected types, sizes on both
\* sides of the limit; an accepted text file is short, its content is followed
\* character by character
File(type, size) == [type |-> type, size |-> size]
Files ==
    {File("text/plain", 0), File("text/plain", 1),
     File("text/markdown", MaxFileSize + 1),
     File("application/pdf", MaxFileSize), File("application/pdf", MaxFileSize + 1),
     File(DOCX, 1), File("application/msword", 1),
     File("image/png", 1), File("image/png", MaxFileSize + 1)}

\* validateFile: NoError when the file is accepted, the thrown error otherwise
ValidateFile_noSizeLimit(file) ==
    IF file.type \notin AllowedTypes
       THEN [at |-> "validate", reason |-> <<"Unsupported file type: ", file.type>>]
       ELSE NoError

ValidateFile(file) ==
    IF file.type \notin AllowedTypes
       THEN [at |-> "validate", reason |-> <<"Unsupported file type: ", file.type>>]
       ELSE IF file.size > MaxFileSize
               THEN [at |-> "validate", reason |-> <<"File size exceeds 50MB limit">>]
               ELSE NoError

\* the document record createDocumentRecord adds; the file is named 'a.<ext>'
NewDocument(file, now) ==
    [status |-> "uploading", storagePath |-> "", isActive |-> TRUE,
     stage |-> "none", progress |-> 0, errorMessage |-> <<>>,
     mimeType |-> file.type, title |-> <<"a">>, keywords |-> {},
     uploadedAt |-> now, totalChunks |-> 0]

\* length of the placeholder text extractTextContent returns for pdf and docx
PlaceholderLen(type) == IF type = DOCX THEN 164 ELSE 107

\* the progress processDocument writes with each stage
StageProgress_late(stage) ==
    CASE stage = "extracting" -> 10
      [] stage = "chunking"   -> 80
      [] stage = "storing"    -> 70
      [] stage = "finalizing" -> 90
      [] stage = "completed"  -> 100

StageProgress(stage) ==
    CASE stage = "extracting" -> 10
      [] stage = "chunking"   -> 30
      [] stage = "storing"    -> 70
      [] stage = "finalizing" -> 90
      [] stage = "completed"  -> 100

\* where processDocument stands before and after updateProcessingProgress(stage)
PointBefore(stage) ==
    CASE stage = "extracting" -> "p_extracting"
      [] stage = "chunking"   -> "p_chunking"
      [] stage = "storing"    -> "chunk"
      [] stage = "finalizing" -> "p_finalizing"

PointAfter(stage) ==
    CASE stage = "extracting" -> "extract"
      [] stage = "chunking"   -> "chunk"
      [] stage = "storing"    -> "store"
      [] stage = "finalizing" -> "finalize"

StoreNow == [docs |-> kbDocs, blobs |-> kbBlobs, chunkRecords |-> chunkRecords]

delLocals == <<dpc, delDocId, delRemoved, delBefore>>
upLocals  == <<upc, upFile, upDocId, upError, upBefore>>
kbRest    == <<turnVars, planVars, memVars, optVars, queryVars, auxVars>>

\* POST /api/knowledge-base: uploadDocument(file) is called
UploadStart(file) ==
    /\ upc = "idle"
    /\ dpc = "idle"
    /\ upc' = "validate"
    /\ upFile' = file
    /\ upDocId' = NoDoc
    /\ upError' = NoError
    /\ upBefore' = StoreNow
    /\ UNCHANGED <<kbDocs, kbBlobs, chunkRecords, created, delLocals, chunkVars>>
    /\ UNCHANGED kbRest

\* validateFile(file): a rejected file fails the call at once
UploadValidate ==
    /\ upc = "validate"
    /\ LET e == ValidateFile(upFile) IN
         IF e = NoError
            THEN upc' = "record" /\ UNCHANGED upError
            ELSE upc' = "failed" /\ upError' = e
    /\ UNCHANGED <<kbDocs, kbBlobs, chunkRecords, created, upFile, upDocId,
                   upBefore, delLocals, chunkVars>>
    /\ UNCHANGED kbRest

\* createDocumentRecord: the record is added with status 'uploading'
CreateRecordOk ==
    /\ upc = "record"
    /\ created < MaxDocs
    /\ kbDocs' = ((created + 1) :> NewDocument(upFile, created + 1)) @@ kbDocs
    /\ created' = created + 1
    /\ upDocId' = created + 1
    /\ upc' = "save"
    /\ UNCHANGED <<kbBlobs, chunkRecords, upFile, upError, upBefore, delLocals,
                   chunkVars>>
    /\ UNCHANGED kbRest

\* uploadFileToStorage: the blob is saved
SaveBlobOk ==
    /\ upc = "save"
    /\ kbBlobs' = kbBlobs \cup {upDocId}
    /\ upc' = "path"
    /\ UNCHANGED <<kbDocs, chunkRecords, created, upFile, upDocId, upError,
                   upBefore, delLocals, chunkVars>>
    /\ UNCHANGED kbRest

\* uploadFileToStorage: the record gets its storagePath and status 'processing'
PathUpdateOk ==
    /\ upc = "path"
    /\ upDocId \in DOMAIN kbDocs
    /\ kbDocs' = [kbDocs EXCEPT ![upDocId].storagePath = "blob",
                                ![upDocId].status = "processing"]
    /\ upc' = "p_extracting"
    /\ UNCHANGED <<kbBlobs, chunkRecords, created, upFile, upDocId, upError,
                   upBefore, delLocals, chunkVars>>
    /\ UNCHANGED kbRest

\* the store or the storage fails before processDocument is entered; the
\* failure propagates out of uploadDocument
UploadStepFail ==
    /\ upc \in {"record", "save", "path"}
    /\ upError' = [at |-> upc, reason |-> <<"unavailable">>]
    /\ upc' = "failed"
    /\ UNCHANGED <<kbDocs, kbBlobs, chunkRecords, created, upFile, upDocId,
                   upBefore, delLocals, chunkVars>>
    /\ UNCHANGED kbRest

\* updateProcessingProgress(documentId, stage, StageProgress(stage)); the call
\* for 'chunking' is followed by the call of createDocumentChunks, the call
\* for 'storing' follows its return
UpdateProgress(stage) ==
    /\ stage \in {"extracting", "chunking", "storing", "finalizing"}
    /\ upc = PointBefore(stage)
    /\ stage = "storing" => cpc = "returned"
    /\ kbDocs' = [kbDocs EXCEPT ![upDocId].stage = stage,
                                ![upDocId].progress = StageProgress(stage)]
    /\ upc' = PointAfter(stage)
    /\ IF stage = "chunking"
          THEN /\ cpc' = "loop"
               /\ chunks' = <<>>
               /\ startPosition' = 0
               /\ UNCHANGED docContent
          ELSE UNCHANGED chunkVars
    /\ UNCHANGED <<kbBlobs, chunkRecords, created, upFile, upDocId, upError,
                   upBefore, delLocals>>
    /\ UNCHANGED kbRest

\* extractTextContent: the decoded text of a text file, the placeholder text
\* for pdf and docx, an error for any other type
ExtractText ==
    /\ upc = "extract"
    /\ IF upFile.type \in {"text/plain", "text/markdown"}
          THEN /\ docContent' = TextOf(upFile.size)
               /\ upc' = "p_chunking"
               /\ UNCHANGED upError
          ELSE IF upFile.type \in {"application/pdf", DOCX}
          THEN /\ docContent' = TextOf(PlaceholderLen(upFile.type))
               /\ upc' = "p_chunking"
               /\ UNCHANGED upError
          ELSE /\ upError' = [at |-> "extracting",
                              reason |-> <<"Unsupported file type for text extraction: ",
                                           upFile.type>>]
               /\ upc' = "catch"
               /\ UNCHANGED docContent
    /\ UNCHANGED <<kbDocs, kbBlobs, chunkRecords, created, upFile, upDocId,
                   upBefore, delLocals, cpc, chunks, startPosition>>
    /\ UNCHANGED kbRest

\* storeDocumentChunks: one batch sets a record per chunk
StoreChunksOk ==
    /\ upc = "store"
    /\ chunkRecords' = [chunkRecords EXCEPT ![upDocId] = @ + Len(chunks)]
    /\ upc' = "p_finalizing"
    /\ UNCHANGED <<kbDocs, kbBlobs, created, upFile, upDocId, upError, upBefore,
                   delLocals, chunkVars>>
    /\ UNCHANGED kbRest

\* the last update of processDocument: status 'ready', progress 100, stage 'completed'
MarkReady ==
    /\ upc = "finalize"
    /\ kbDocs' = [kbDocs EXCEPT ![upDocId].status = "ready",
                                ![upDocId].totalChunks = Len(chunks),
                                ![upDocId].progress = StageProgress("completed"),
                                ![upDocId].stage = "completed"]
    /\ upc' = "done"
    /\ UNCHANGED <<kbBlobs, chunkRecords, created, upFile, upDocId, upError,
                   upBefore, delLocals, chunkVars>>
    /\ UNCHANGED kbRest

\* the stage processDocument is in at each of its store operations
StageAt(point) ==
    CASE point = "p_extracting" -> "extracting"
      [] point = "p_chunking"   -> "chunking"
      [] point = "chunk"        -> "storing"
      [] point = "store"        -> "storing"
      [] point = "p_finalizing" -> "finalizing"
      [] point = "finalize"     -> "completed"

\* a store operation of processDocument fails; control passes to its catch
StageFail ==
    /\ upc \in {"p_extracting", "p_chunking", "chunk", "store", "p_finalizing",
                "finalize"}
    /\ upc = "chunk" => cpc = "returned"
    /\ upError' = [at |-> StageAt(upc), reason |-> <<"unavailable">>]
    /\ upc' = "catch"
    /\ UNCHANGED <<kbDocs, kbBlobs, chunkRecords, created, upFile, upDocId,
                   upBefore, delLocals, chunkVars>>
    /\ UNCHANGED kbRest

\* the catch of processDocument: status 'error' with the error's message, then
\* the error is thrown again
MarkError ==
    /\ upc = "catch"
    /\ kbDocs' = [kbDocs EXCEPT ![upDocId].status = "error",
                                ![upDocId].errorMessage = upError.reason]
    /\ upc' = "failed"
    /\ UNCHANGED <<kbBlobs, chunkRecords, created, upFile, upDocId, upError,
                   upBefore, delLocals, chunkVars>>
    /\ UNCHANGED kbRest

\* the route has answered; the locals of the call are discarded
UploadFinish ==
    /\ upc \in {"done", "failed"}
    /\ upc' = "idle"
    /\ upFile' = NoFile
    /\ upDocId' = NoDoc
    /\ upError' = NoError
    /\ upBefore' = NoStore
    /\ docContent' = <<>>
    /\ cpc' = "off"
    /\ chunks' = <<>>
    /\ startPosition' = 0
    /\ UNCHANGED <<kbDocs, kbBlobs, chunkRecords, created, delLocals>>
    /\ UNCHANGED kbRest

-----------------------------------------------------------------------------
(* KnowledgeBaseManager.deleteDocument                                     *)

\* chunk records under one document
MaxChunkRecords == 2

Without(f, d) == [x \in DOMAIN f \ {d} |-> f[x]]

\* the first removal after the record has been read: the blob when the record
\* carries a storage path
AfterGet_skipBlob(storagePath) == "chunks"

AfterGet(storagePath) == IF storagePath # "" THEN "blob" ELSE "chunks"

\* the Firestore rules let the owner's client write chunk records of a
\* document; none is written while a call of the manager is running
OwnerAddsChunk(d) ==
    /\ d \in DOMAIN kbDocs
    /\ upc = "idle"
    /\ dpc = "idle"
    /\ chunkRecords[d] < MaxChunkRecords
    /\ chunkRecords' = [chunkRecords EXCEPT ![d] = @ + 1]
    /\ UNCHANGED <<kbDocs, kbBlobs, created, upLocals, delLocals, chunkVars>>
    /\ UNCHANGED kbRest

\* DELETE /api/knowledge-base: deleteDocument(documentId) is called
DeleteStart(d) ==
    /\ dpc = "idle"
    /\ upc = "idle"
    /\ dpc' = "get"
    /\ delDocId' = d
    /\ delRemoved' = <<>>
    /\ delBefore' = StoreNow
    /\ UNCHANGED <<kbDocs, kbBlobs, chunkRecords, created, upLocals, chunkVars>>
    /\ UNCHANGED kbRest

\* the record is read: 'Document not found' when it does not exist
DeleteGet ==
    /\ dpc = "get"
    /\ dpc' = IF delDocId \notin DOMAIN kbDocs
                 THEN "not_found"
                 ELSE AfterGet(kbDocs[delDocId].storagePath)
    /\ UNCHANGED <<kbDocs, kbBlobs, chunkRecords, created, upLocals, delDocId,
                   delRemoved, delBefore, chunkVars>>
    /\ UNCHANGED kbRest

\* fileRef.delete(): the blob at the storage path is removed
DeleteBlobOk ==
    /\ dpc = "blob"
    /\ delDocId \in kbBlobs
    /\ kbBlobs' = kbBlobs \ {delDocId}
    /\ delRemoved' = Append(delRemoved, "blob")
    /\ dpc' = "chunks"
    /\ UNCHANGED <<kbDocs, chunkRecords, created, upLocals, delDocId, delBefore,
                   chunkVars>>
    /\ UNCHANGED kbRest

\* the chunk records are read and deleted in one batch
DeleteChunksOk ==
    /\ dpc = "chunks"
    /\ chunkRecords' = [chunkRecords EXCEPT ![delDocId] = 0]
    /\ delRemoved' = Append(delRemoved, "chunks")
    /\ dpc' = "record"
    /\ UNCHANGED <<kbDocs, kbBlobs, created, upLocals, delDocId, delBefore,
                   chunkVars>>
    /\ UNCHANGED kbRest

\* docRef.delete()
DeleteRecordOk ==
    /\ dpc = "record"
    /\ kbDocs' = Without(kbDocs, delDocId)
    /\ delRemoved' = Append(delRemoved, "record")
    /\ dpc' = "done"
    /\ UNCHANGED <<kbBlobs, chunkRecords, created, upLocals, delDocId, delBefore,
                   chunkVars>>
    /\ UNCHANGED kbRest

\* the read, the blob delete (also: no blob at the path), the batch commit or
\* the record delete fails; the catch throws the error again
DeleteFail ==
    /\ dpc \in {"get", "blob", "chunks", "record"}
    /\ dpc' = "failed"
    /\ UNCHANGED <<kbDocs, kbBlobs, chunkRecords, created, upLocals, delDocId,
                   delRemoved, delBefore, chunkVars>>
    /\ UNCHANGED kbRest

\* the route has answered
DeleteFinish ==
    /\ dpc \in {"done", "failed", "not_found"}
    /\ dpc' = "idle"
    /\ delDocId' = NoDoc
    /\ delRemoved' = <<>>
    /\ delBefore' = NoStore
    /\ UNCHANGED <<kbDocs, kbBlobs, chunkRecords, created, upLocals, chunkVars>>
    /\ UNCHANGED kbRest

InitKb ==
    /\ TurnIdle
    /\ PlanIdle
    /\ MemIdle
    /\ OptIdle
    /\ ChunkIdle
    /\ QueryIdle
    /\ AuxIdle
    /\ kbDocs = <<>>
    /\ kbBlobs = {}
    /\ chunkRecords = [d \in DocIds |-> 0]
    /\ created = 0
    /\ upc = "idle"
    /\ upFile = NoFile
    /\ upDocId = NoDoc
    /\ upError = NoError
    /\ upBefore = NoStore
    /\ dpc = "idle"
    /\ delDocId = NoDoc
    /\ delRemoved = <<>>
    /\ delBefore = NoStore

NextKb ==
    \/ \E file \in Files : UploadStart(file)
    \/ UploadValidate
    \/ CreateRecordOk
    \/ SaveBlobOk
    \/ PathUpdateOk
    \/ UploadStepFail
    \/ \E stage \in {"extracting", "chunking", "storing", "finalizing"} :
          UpdateProgress(stage)
    \/ ExtractText
    \/ ChunkIterate
    \/ ChunkReturn
    \/ StoreChunksOk
    \/ MarkReady
    \/ StageFail
    \/ MarkError
    \/ UploadFinish
    \/ \E d \in DocIds : OwnerAddsChunk(d)
    \/ \E d \in DocIds : DeleteStart(d)
    \/ DeleteGet
    \/ DeleteBlobOk
    \/ DeleteChunksOk
    \/ DeleteRecordOk
    \/ DeleteFail
    \/ DeleteFinish

SpecKb == InitKb /\ [][NextKb]_vars

-----------------------------------------------------------------------------
(* Properties of ingestion and deletion                                    *)

StageRank(stage) ==
    CASE stage = "none"       -> 0
      [] stage = "extracting" -> 1
      [] stage = "chunking"   -> 2
      [] stage = "storing"    -> 3
      [] stage = "finalizing" -> 4
      [] stage = "completed"  -> 5

ExpectedProgress == <<10, 30, 70, 90, 100>>

\* a record keeps its stage, or moves to the next stage with that stage's progress
StageAdvances(old, new) ==
    \/ /\ new.stage = old.stage
       /\ new.progress = old.progress
    \/ /\ StageRank(new.stage) = StageRank(old.stage) + 1
       /\ new.progress = ExpectedProgress[StageRank(new.stage)]
       /\ new.progress > old.progress

\* the running ingestion failed in one of the stages of processDocument
StageFailed ==
    /\ upc = "failed"
    /\ upError.at \in {"extracting", "chunking", "storing", "finalizing", "completed"}

Settled(doc) == doc.status \in {"error", "ready"}

C17_DeleteRemovesAll ==
    (dpc = "done") =>
        /\ delDocId \notin DOMAIN kbDocs
        /\ chunkRecords[delDocId] = 0
        /\ delRemoved = IF delBefore.docs[delDocId].storagePath # ""
                           THEN <<"blob", "chunks", "record">>
                           ELSE <<"chunks", "record">>

\* a document with a blob and chunk records has been deleted
C17_Witness ==
    /\ dpc = "done"
    /\ delRemoved = <<"blob", "chunks", "record">>
    /\ delBefore.chunkRecords[delDocId] > 0
    /\ delDocId \notin kbBlobs

\* C18: a deleteDocument that fails at one of its steps has either removed
\* nothing, or the document record is removed or no longer marked active
\* (isActive true, status 'ready').
C18_NoActiveRecordAfterPartialDelete ==
    (dpc = "failed") =>
        \/ delRemoved = <<>>
        \/ delDocId \notin DOMAIN kbDocs
        \/ ~(kbDocs[delDocId].isActive /\ kbDocs[delDocId].status = "ready")

\* a file validateFile does not accept
Unacceptable(file) ==
    \/ file.type \notin {"application/pdf", DOCX, "application/msword",
                         "text/plain", "text/markdown"}
    \/ file.size > 50 * 1024 * 1024

-----------------------------------------------------------------------------
(* KnowledgeBaseManager.queryKnowledgeBase                                 *)

\* documents in the knowledge base when it is queried
MaxQueryDocs == 3

\* String.prototype.toLowerCase over the letters of the model
LowerChar(c) == CASE c = "A" -> "a" [] c = "B" -> "b" [] OTHER -> c
toLowerCase(s) == [i \in 1..Len(s) |-> LowerChar(s[i])]

\* the filter of queryKnowledgeBase: the title or some keyword includes the
\* query, both in lower case
Matches_caseSensitive(doc, query) ==
    \/ Includes(toLowerCase(doc.title), query)
    \/ \E keyword \in doc.keywords : Includes(toLowerCase(keyword), query)

Matches(doc, query) ==
    \/ Includes(toLowerCase(doc.title), toLowerCase(query))
    \/ \E keyword \in doc.keywords :
          Includes(toLowerCase(keyword), toLowerCase(query))

\* orderBy('uploadedAt', 'desc') over a set of document ids
RECURSIVE OrderDesc(_, _)
OrderDesc(docs, ids) ==
    IF ids = {} THEN <<>>
    ELSE LET latest == CHOOSE d \in ids :
                          \A o \in ids : docs[o].uploadedAt <= docs[d].uploadedAt
         IN <<latest>> \o OrderDesc(docs, ids \ {latest})

\* queryKnowledgeBase(query, limit): the ready and active documents, latest
\* upload first, filtered, then slice(0, limit)
QueryKnowledgeBase(docs, query, limit) ==
    LET snapshot  == OrderDesc(docs, {d \in DOMAIN docs :
                                        /\ docs[d].status = "ready"
                                        /\ docs[d].isActive = TRUE})
        relevantDocs == SelectSeq(snapshot, LAMBDA d : Matches(docs[d], query))
    IN Slice(relevantDocs, 0, limit)

\* the default limit, and the other limits callers pass (the pipeline: KbLimit)
DefaultLimit == 5
Limits == {1, 2, KbLimit, DefaultLimit}
Queries == {<<>>, <<"a">>, <<"A">>, <<"b">>, <<"a", "B">>, <<"b", "a">>}

\* documents as uploads and the owner's edits (the Firestore rules allow the
\* owner to write the record) leave them: title, keywords, status, isActive
DocKind(title, keywords, status, isActive) ==
    [title |-> title, keywords |-> keywords, status |-> status,
     isActive |-> isActive]
DocKinds ==
    {DocKind(<<"A", "b">>, {}, "ready", TRUE),
     DocKind(<<"b">>, {<<"x">>, <<"B", "A">>}, "ready", TRUE),
     DocKind(<<"B">>, {}, "ready", TRUE),
     DocKind(<<"a", "b">>, {}, "ready", FALSE),
     DocKind(<<"a">>, {<<"a", "b">>}, "processing", TRUE),
     DocKind(<<"a", "b">>, {}, "error", TRUE)}

queryRest == <<turnVars, planVars, memVars, optVars, chunkVars, kbBlobs,
               chunkRecords, upLocals, delLocals, auxVars>>

\* a document record is in the store, uploaded after the ones before it
DocumentStored(kind) ==
    /\ qpc = "idle"
    /\ created < MaxQueryDocs
    /\ kbDocs' = ((created + 1) :>
                    [NewDocument(File("text/plain", 0), created + 1)
                        EXCEPT !.title = kind.title,
                               !.keywords = kind.keywords,
                               !.status = kind.status,
                               !.isActive = kind.isActive]) @@ kbDocs
    /\ created' = created + 1
    /\ UNCHANGED <<queryVars>>
    /\ UNCHANGED queryRest

\* queryKnowledgeBase(query, limit) is called and returns
QueryCall(query, limit) ==
    /\ qpc = "idle"
    /\ queryArgs' = [query |-> query, limit |-> limit]
    /\ queryResult' = QueryKnowledgeBase(kbDocs, query, limit)
    /\ qpc' = "returned"
    /\ UNCHANGED <<kbDocs, created>>
    /\ UNCHANGED queryRest

\* the caller has its documents
QueryFinish ==
    /\ qpc = "returned"
    /\ qpc' = "idle"
    /\ queryArgs' = NoQuery
    /\ queryResult' = <<>>
    /\ UNCHANGED <<kbDocs, created>>
    /\ UNCHANGED queryRest

InitQuery ==
    /\ TurnIdle
    /\ PlanIdle
    /\ MemIdle
    /\ OptIdle
    /\ ChunkIdle
    /\ KbIdle
    /\ AuxIdle
    /\ qpc = "idle"
    /\ queryArgs = NoQuery
    /\ queryResult = <<>>

NextQuery ==
    \/ \E kind \in DocKinds : DocumentStored(kind)
    \/ \E query \in Queries, limit \in Limits : QueryCall(query, limit)
    \/ QueryFinish

SpecQuery == InitQuery /\ [][NextQuery]_vars

\* s contains q when letters are compared without regard to case
UpperChar(c) == CASE c = "a" -> "A" [] c = "b" -> "B" [] OTHER -> c
ContainsIgnoringCase(s, q) ==
    \E i \in 0..(Len(s) - Len(q)) :
        \A j \in 1..Len(q) : UpperChar(s[i + j]) = UpperChar(q[j])

\* the documents a query is to find
Eligible(query) ==
    {d \in DOMAIN kbDocs :
        /\ kbDocs[d].status = "ready"
        /\ kbDocs[d].isActive
        /\ \/ ContainsIgnoringCase(kbDocs[d].title, query)
           \/ \E k \in kbDocs[d].keywords : ContainsIgnoringCase(k, query)}

\* C20: queryKnowledgeBase(query, limit) returns exactly the first limit
\* documents, most recently uploaded first, among the documents that are
\* ready and active and whose title or some keyword contains the query
\* case-insensitively; never another document and never more than limit.
C20_QueryResult ==
    (qpc = "returned") =>
        LET r == queryResult
            e == Eligible(queryArgs.query)
        IN /\ \A i \in DOMAIN r : r[i] \in e
           /\ \A i \in 1..(Len(r) - 1) :
                 kbDocs[r[i]].uploadedAt > kbDocs[r[i + 1]].uploadedAt
           /\ Len(r) <= queryArgs.limit
           /\ Len(r) = Min2(queryArgs.limit, Cardinality(e))
           /\ \A d \in e :
                 (\A i \in DOMAIN r : r[i] # d) =>
                    \A i \in DOMAIN r : kbDocs[d].uploadedAt < kbDocs[r[i]].uploadedAt

\* three documents match through case folding or a keyword, two are returned
C20_Witness ==
    /\ qpc = "returned"
    /\ queryArgs = [query |-> <<"a", "B">>, limit |-> 2]
    /\ Cardinality(Eligible(queryArgs.query)) = 3
    /\ queryResult = <<3, 2>>

-----------------------------------------------------------------------------
(* OpenRouterLLM.invoke (lib/openRouterLLM.ts)                             *)
(*                                                                         *)
(* One call of invoke: the first fetch, the 429 branch with its wait and   *)
(* its single retry, and the outer catch that rewraps every throw.  The    *)
(* provider is the environment: it answers a fetch with a status and a     *)
(* body, rejects it, or does not answer.                                   *)

\* HTTP statuses the provider answers with
Statuses == {200, 204, 400, 401, 429, 500, 503}
\* a 2xx body without choices[0].message.content
Missing == "null"
\* response bodies: the reply text of a 2xx answer, the error text otherwise
Bodies == {Missing, "", "a", "b"}
\* request bodies handed to invoke
Requests == {<<"q1">>, <<"q1", "q2">>}

RateLimited == 429
RetryWaitMs == 60000

\* response.ok
Ok(status) == status >= 200 /\ status <= 299

\* the branch that retries
ShouldRetry_anyError(status) == ~Ok(status)
ShouldRetry(status) == status = RateLimited

\* data.choices?.[0]?.message?.content || ''
ContentOf(body) == IF body = Missing THEN "" ELSE body

Fetch(request) == [ev |-> "fetch", request |-> request, status |-> 0, body |-> "", ms |-> 0]
Response(status, body) ==
    [ev |-> "response", request |-> NoRequest, status |-> status, body |-> body, ms |-> 0]
Wait(ms) == [ev |-> "wait", request |-> NoRequest, status |-> 0, body |-> "", ms |-> ms]

\* new AIMessage(content)
Returned(content) ==
    [kind |-> "message", content |-> content, status |-> 0, body |-> "",
     afterRetry |-> FALSE]
\* the Error thrown at line 86 or 94, rewrapped by the catch at line 103:
\* its message keeps the status and the body
ApiFailure(status, body, afterRetry) ==
    [kind |-> "failure", content |-> "", status |-> status, body |-> body,
     afterRetry |-> afterRetry]
\* the Error the catch builds when fetch itself rejected
FetchFailure(afterRetry) ==
    [kind |-> "failure", content |-> "", status |-> 0, body |-> "",
     afterRetry |-> afterRetry]

llmRest == <<turnVars, planVars, memVars, optVars, chunkVars, kbVars, queryVars,
             accVars, searchVars, consumerVars, histVars>>

\* invoke is called: the request body is built and the first fetch is issued
LlmInvoke(request) ==
    /\ lpc = "idle"
    /\ lpc' = "first"
    /\ llmRequest' = request
    /\ llmLog' = <<Fetch(request)>>
    /\ UNCHANGED llmOutcome
    /\ UNCHANGED llmRest

\* the provider answers the first fetch
LlmFirstResponse(status, body) ==
    /\ lpc = "first"
    /\ IF Ok(status)
       THEN /\ llmLog' = Append(llmLog, Response(status, body))
            /\ lpc' = "returned"
            /\ llmOutcome' = Returned(ContentOf(body))
       ELSE IF ShouldRetry(status)
       THEN \* the wait is started; the retry follows it
            /\ llmLog' = Append(llmLog, Response(status, body))
            /\ lpc' = "cooldown"
            /\ UNCHANGED llmOutcome
       ELSE /\ llmLog' = Append(llmLog, Response(status, body))
            /\ lpc' = "failed"
            /\ llmOutcome' = ApiFailure(status, body, FALSE)
    /\ UNCHANGED llmRequest
    /\ UNCHANGED llmRest

\* the first fetch rejects (no answer reached the client)
LlmFirstReject ==
    /\ lpc = "first"
    /\ lpc' = "failed"
    /\ llmOutcome' = FetchFailure(FALSE)
    /\ UNCHANGED <<llmRequest, llmLog>>
    /\ UNCHANGED llmRest

\* the 60 s timer fires and the retry fetch is issued with the same request
LlmCoolDownElapsed ==
    /\ lpc = "cooldown"
    /\ lpc' = "retry"
    /\ llmLog' = llmLog \o <<Wait(RetryWaitMs), Fetch(llmRequest)>>
    /\ UNCHANGED <<llmRequest, llmOutcome>>
    /\ UNCHANGED llmRest

\* the provider answers the retry
LlmRetryResponse(status, body) ==
    /\ lpc = "retry"
    /\ llmLog' = Append(llmLog, Response(status, body))
    /\ IF Ok(status)
       THEN /\ lpc' = "returned"
            /\ llmOutcome' = Returned(ContentOf(body))
       ELSE /\ lpc' = "failed"
            /\ llmOutcome' = ApiFailure(status, body, TRUE)
    /\ UNCHANGED llmRequest
    /\ UNCHANGED llmRest

\* the retry fetch rejects
LlmRetryReject ==
    /\ lpc = "retry"
    /\ lpc' = "failed"
    /\ llmOutcome' = FetchFailure(TRUE)
    /\ UNCHANGED <<llmRequest, llmLog>>
    /\ UNCHANGED llmRest

InitLlm ==
    /\ TurnIdle
    /\ PlanIdle
    /\ MemIdle
    /\ OptIdle
    /\ ChunkIdle
    /\ KbIdle
    /\ QueryIdle
    /\ AccIdle
    /\ SearchIdle
    /\ ConsumerIdle
    /\ HistIdle
    /\ lpc = "idle"
    /\ llmRequest = NoRequest
    /\ llmLog = <<>>
    /\ llmOutcome = NoOutcome

NextLlm ==
    \/ \E request \in Requests : LlmInvoke(request)
    \/ \E status \in Statuses, body \in Bodies : LlmFirstResponse(status, body)
    \/ LlmFirstReject
    \/ LlmCoolDownElapsed
    \/ \E status \in Statuses, body \in Bodies : LlmRetryResponse(status, body)
    \/ LlmRetryReject

SpecLlm == InitLlm /\ [][NextLlm]_vars

\* the events of the log of one kind
EventsOf(kind) == {i \in DOMAIN llmLog : llmLog[i].ev = kind}
LlmDone == lpc \in {"returned", "failed"}
\* the answers received so far, in order
Answers == SelectSeq(llmLog, LAMBDA e : e.ev = "response")

\* C21: a 429 first answer is followed by the wait and exactly one retry,
\* whose content is returned when it succeeds and whose status and body are
\* carried by the failure when it does not; any other non-2xx first answer
\* is not retried and fails with its status and body; at most two requests.
C21_RetryPolicy ==
    /\ Cardinality(EventsOf("fetch")) <= 2
    /\ \* a second request exists only as the retry of a 429, after the wait
       \A i \in EventsOf("fetch") : i > 1 =>
           /\ i = 4
           /\ llmLog[2].ev = "response" /\ llmLog[2].status = RateLimited
           /\ llmLog[3] = Wait(RetryWaitMs)
    /\ (LlmDone /\ Len(Answers) >= 1 /\ Answers[1].status = RateLimited) =>
           /\ Cardinality(EventsOf("fetch")) = 2
           /\ Len(Answers) = 2 =>
                 IF Ok(Answers[2].status)
                 THEN llmOutcome = Returned(ContentOf(Answers[2].body))
                 ELSE /\ llmOutcome.kind = "failure"
                      /\ llmOutcome.status = Answers[2].status
                      /\ llmOutcome.body = Answers[2].body
    /\ (LlmDone /\ Len(Answers) >= 1 /\ ~Ok(Answers[1].status)
            /\ Answers[1].status # RateLimited) =>
           /\ Cardinality(EventsOf("fetch")) = 1
           /\ llmOutcome.kind = "failure"
           /\ llmOutcome.status = Answers[1].status
           /\ llmOutcome.body = Answers[1].body

\* a retried invoke failed on a second 429
C21_Witness ==
    /\ lpc = "failed"
    /\ Len(Answers) = 2
    /\ Answers[1].status = RateLimited
    /\ Answers[2].status = RateLimited
    /\ llmOutcome.status = RateLimited
    /\ Cardinality(EventsOf("fetch")) = 2

\* The scheduling the code gives invoke: the setTimeout of the 429 branch
\* fires, and the statements after an awaited answer run.  Nothing in invoke
\* bounds the time a fetch may stay pending (no signal, no timer is passed to
\* fetch), so an answer or a rejection of a fetch is left to the provider and
\* the runtime.
SpecLlmFair == InitLlm /\ [][NextLlm]_vars /\ WF_vars(LlmCoolDownElapsed)

\* a fetch of the running invoke is pending
AwaitingProvider == lpc \in {"first", "retry"}

\* C22: an invoke waiting for the provider eventually ends (returns or
\* fails), even when the provider never answers.
C22_InvokeEnds == AwaitingProvider ~> LlmDone

-----------------------------------------------------------------------------
(* Access checks of the advanced chat endpoint (POST, GET, PUT)            *)
(*                                                                         *)
(* A request is sent by a caller.  The POST verifies the bearer token and  *)
(* works with the verified identity; GET and PUT read userId from the      *)
(* query string or the body and work with that value.                      *)

Users == {"alice", "bob", "mallory"}
Methods == {"POST", "GET", "PUT"}

\* the chat documents a request may target; the creator is a participant
Chats ==
    {NoChat} \cup
    UNION {{[exists |-> TRUE, participants |-> p, createdBy |-> c] : c \in p} :
              p \in {{"alice"}, {"alice", "bob"}}}

\* caller: the uid the bearer token verifies to, NoUser without a valid token
\* userId: the userId the request itself supplies, NoUser when absent
\* complete: the other required fields (chatId, message or config) are present
AccRequests ==
    [method : Methods, caller : Users \cup {NoUser}, userId : Users \cup {NoUser},
     complete : BOOLEAN]

accRest == <<turnVars, planVars, memVars, optVars, chunkVars, kbVars, queryVars,
             llmVars, searchVars, consumerVars, histVars>>

\* the identity the handler checks against the chat
CheckedUser(request) ==
    IF request.method = "POST" THEN request.caller ELSE request.userId

AccRespond(status) ==
    /\ apc' = "done"
    /\ accStatus' = status

\* a request arrives
AccReceive(request) ==
    /\ apc = "idle"
    /\ accRequest' = request
    /\ apc' = IF request.method = "POST" THEN "auth" ELSE "validate"
    /\ UNCHANGED <<accChat, accOps, accStatus>>
    /\ UNCHANGED accRest

\* POST: getUserFromRequest
AccAuthenticate ==
    /\ apc = "auth"
    /\ IF accRequest.caller = NoUser
       THEN AccRespond(401)
       ELSE apc' = "validate" /\ UNCHANGED accStatus
    /\ UNCHANGED <<accRequest, accChat, accOps>>
    /\ UNCHANGED accRest

\* required fields, and for the POST the userId/uid comparison
AccValidate ==
    /\ apc = "validate"
    /\ LET r == accRequest
           missing == IF r.method = "POST" THEN ~r.complete
                      ELSE ~r.complete \/ r.userId = NoUser
           mismatch == r.method = "POST" /\ r.userId # NoUser /\ r.userId # r.caller
       IN  IF missing THEN AccRespond(400)
           ELSE IF mismatch THEN AccRespond(403)
           ELSE apc' = "getChat" /\ UNCHANGED accStatus
    /\ UNCHANGED <<accRequest, accChat, accOps>>
    /\ UNCHANGED accRest

\* adminDb.collection('chats').doc(chatId).get()
AccGetChat ==
    /\ apc = "getChat"
    /\ accOps' = Append(accOps, "getChat")
    /\ IF ~accChat.exists
       THEN AccRespond(404)
       ELSE apc' = "check" /\ UNCHANGED accStatus
    /\ UNCHANGED <<accRequest, accChat>>
    /\ UNCHANGED accRest

\* the participants check
AccCheck ==
    /\ apc = "check"
    /\ LET uid == CheckedUser(accRequest)
           allowed == IF accRequest.method = "PUT"
                      THEN accChat.createdBy = uid \/ uid \in accChat.participants
                      ELSE uid \in accChat.participants
       IN  IF ~allowed THEN AccRespond(403)
           ELSE apc' = "work" /\ UNCHANGED accStatus
    /\ UNCHANGED <<accRequest, accChat, accOps>>
    /\ UNCHANGED accRest

\* what the handler does once the check has passed:
\*   POST getConversationContext (messages, memory), then the turn's writes
\*   GET  getMemoryStats (memory)
\*   PUT  update of the chat document
AccWork ==
    /\ apc = "work"
    /\ accOps' = accOps \o
          CASE accRequest.method = "POST" ->
                   <<"readMessages", "readMemory", "writeMessages">>
            [] accRequest.method = "GET" -> <<"readMemory">>
            [] accRequest.method = "PUT" -> <<"writeChat">>
    /\ AccRespond(200)
    /\ UNCHANGED <<accRequest, accChat>>
    /\ UNCHANGED accRest

\* a store call throws: the handler's catch answers 500
AccStoreFail ==
    /\ apc \in {"getChat", "work"}
    /\ AccRespond(500)
    /\ UNCHANGED <<accRequest, accChat, accOps>>
    /\ UNCHANGED accRest

InitAcc ==
    /\ TurnIdle
    /\ PlanIdle
    /\ MemIdle
    /\ OptIdle
    /\ ChunkIdle
    /\ KbIdle
    /\ QueryIdle
    /\ LlmIdle
    /\ SearchIdle
    /\ ConsumerIdle
    /\ HistIdle
    /\ apc = "idle"
    /\ accRequest = NoAccRequest
    /\ accChat \in Chats
    /\ accOps = <<>>
    /\ accStatus = 0

NextAcc ==
    \/ \E request \in AccRequests : AccReceive(request)
    \/ AccAuthenticate
    \/ AccValidate
    \/ AccGetChat
    \/ AccCheck
    \/ AccWork
    \/ AccStoreFail

SpecAcc == InitAcc /\ [][NextAcc]_vars

\* reads of the chat's messages or memory records, and writes to the chat
Protected == {"readMessages", "readMemory", "writeMessages", "writeChat"}
ProtectedOps == {i \in DOMAIN accOps : accOps[i] \in Protected}

\* C23: a request whose caller is not a participant of the chat performs no
\* read of its messages or memory records and no write to it, and is not
\* answered with success, whatever userId the request supplies.
C23_NonParticipantRejected ==
    (apc \notin {"off", "idle"} /\ accChat.exists
        /\ accRequest.caller \notin accChat.participants) =>
        /\ ProtectedOps = {}
        /\ accStatus # 200

-----------------------------------------------------------------------------
(* optimizeMemory: failures and the summary used as context                *)

\* the consolidation of the running call went through every step
Consolidated ==
    /\ opc = "done"
    /\ memoryStrategy = "summary"
    /\ Len(memoryBefore) > OptimizeThreshold

\* C24: consolidation is all-or-nothing: after a failed call (no delete still
\* in flight) the summary records are the ones the call found; after a
\* consolidating call every old record is deleted and the consolidated record
\* exists.
C24_ConsolidationAllOrNothing ==
    /\ (opc = "failed" /\ pendingDeletes = {}) => memory = memoryBefore
    /\ Consolidated =>
          /\ RecordsOf(oldSummaries) \cap RecordsOf(memory) = {}
          /\ \E m \in RecordsOf(memory) :
                 m \notin RecordsOf(memoryBefore) /\ m.content = metaSummary

\* the newest record of a collection (orderBy createdAt desc, limit 1)
LatestOf(docs) ==
    CHOOSE m \in RecordsOf(docs) : \A o \in RecordsOf(docs) : o.createdAt <= m.createdAt

\* C29: the record getSummaryBufferContext selects as latest summary after a
\* call of optimizeMemory is the one it selected before the call.
C29_LatestSummaryKept ==
    (opc = "done" /\ memoryBefore # <<>>) => LatestMemory = LatestOf(memoryBefore)

-----------------------------------------------------------------------------
(* The search endpoint: shouldPerformWebSearch and the search POST         *)

\* fragments a query is built from
MaxQueryFrags == 3

UpperLetters == <<"A", "B", "C", "D", "E", "F", "G", "H", "I", "J", "K", "L", "M", "N", "O", "P", "Q", "R", "S", "T", "U", "V", "W", "X", "Y", "Z">>
LowerLetters == <<"a", "b", "c", "d", "e", "f", "g", "h", "i", "j", "k", "l", "m", "n", "o", "p", "q", "r", "s", "t", "u", "v", "w", "x", "y", "z">>
Digits == {"0", "1", "2", "3", "4", "5", "6", "7", "8", "9"}

IsUpper(c) == \E i \in 1..26 : UpperLetters[i] = c
IsLower(c) == \E i \in 1..26 : LowerLetters[i] = c
IsDigit(c) == c \in Digits
\* \w
IsWordChar(c) == IsUpper(c) \/ IsLower(c) \/ IsDigit(c) \/ c = "_"

\* String.prototype.toLowerCase over the whole alphabet
LowerOf(c) ==
    IF IsUpper(c) THEN LowerLetters[CHOOSE i \in 1..26 : UpperLetters[i] = c] ELSE c
LowerCase(s) == [i \in 1..Len(s) |-> LowerOf(s[i])]

\* String.prototype.trim
RECURSIVE TrimStart(_)
TrimStart(s) == IF s # <<>> /\ Head(s) = " " THEN TrimStart(Tail(s)) ELSE s
RECURSIVE TrimEnd(_)
TrimEnd(s) ==
    IF s # <<>> /\ s[Len(s)] = " " THEN TrimEnd(SubSeq(s, 1, Len(s) - 1)) ELSE s
Trim(s) == TrimEnd(TrimStart(s))

searchIndicators ==
    {<<"l", "a", "t", "e", "s", "t">>,
     <<"r", "e", "c", "e", "n", "t">>,
     <<"n", "e", "w", "s">>,
     <<"c", "u", "r", "r", "e", "n", "t">>,
     <<"u", "p", "d", "a", "t", "e">>,
     <<"t", "o", "d", "a", "y">>,
     <<"t", "h", "i", "s", " ", "w", "e", "e", "k">>,
     <<"t", "h", "i", "s", " ", "m", "o", "n", "t", "h">>,
     <<"t", "h", "i", "s", " ", "y", "e", "a", "r">>,
     <<"s", "t", "o", "c", "k", " ", "p", "r", "i", "c", "e">>,
     <<"w", "e", "a", "t", "h", "e", "r">>,
     <<"e", "v", "e", "n", "t">>,
     <<"t", "r", "e", "n", "d">>,
     <<"b", "r", "e", "a", "k", "i", "n", "g">>,
     <<"s", "e", "a", "r", "c", "h", " ", "f", "o", "r">>,
     <<"f", "i", "n", "d", " ", "i", "n", "f", "o", "r", "m", "a", "t", "i", "o", "n">>,
     <<"l", "o", "o", "k", " ", "u", "p">>}
questionWords ==
    {<<"h", "o", "w">>,
     <<"w", "h", "a", "t">>,
     <<"w", "h", "y">>,
     <<"w", "h", "e", "n">>,
     <<"w", "h", "e", "r", "e">>,
     <<"w", "h", "i", "c", "h">>,
     <<"w", "h", "o">>}
excludePatterns ==
    {<<"y", "o", "u", "r", " ", "n", "a", "m", "e">>,
     <<"w", "h", "o", " ", "a", "r", "e", " ", "y", "o", "u">>,
     <<"w", "h", "a", "t", " ", "c", "a", "n", " ", "y", "o", "u", " ", "d", "o">>,
     <<"h", "o", "w", " ", "a", "r", "e", " ", "y", "o", "u">>,
     <<"w", "h", "a", "t", " ", "i", "s", " ", "y", "o", "u", "r">>,
     <<"t", "e", "l", "l", " ", "m", "e", " ", "a", " ", "j", "o", "k", "e">>,
     <<"h", "o", "w", " ", "d", "o", " ", "y", "o", "u", " ", "f", "e", "e", "l">>}
timeSensitiveTerms ==
    {<<"p", "r", "i", "c", "e">>,
     <<"c", "o", "s", "t">>,
     <<"v", "a", "l", "u", "e">>,
     <<"w", "e", "a", "t", "h", "e", "r">>,
     <<"e", "v", "e", "n", "t">>}

\* /^(how|what|why|when|where|which|who)\b/
StartsWithQuestionWord(s) ==
    \E w \in questionWords :
        /\ Len(s) >= Len(w)
        /\ SubSeq(s, 1, Len(w)) = w
        /\ (Len(s) = Len(w) \/ ~IsWordChar(s[Len(w) + 1]))

\* /\?$/
EndsWithQuestionMark(s) == s # <<>> /\ s[Len(s)] = "?"

\* /[A-Z][a-z]+ [A-Z][a-z]+/
HasCapitalisedPair(s) ==
    \E i \in 1..Len(s), k \in 1..Len(s) :
        /\ i + 1 < k
        /\ k + 2 <= Len(s)
        /\ IsUpper(s[i])
        /\ \A j \in (i + 1)..(k - 1) : IsLower(s[j])
        /\ s[k] = " "
        /\ IsUpper(s[k + 1])
        /\ IsLower(s[k + 2])

\* /\d{4}/
HasFourDigits(s) ==
    \E i \in 1..(Len(s) - 3) : \A j \in 0..3 : IsDigit(s[i + j])

shouldPerformWebSearch_noExclusion(query) ==
    LET lowerQuery == Trim(LowerCase(query))
        containsIndicator ==
            \E indicator \in searchIndicators : Includes(lowerQuery, indicator)
        isQuestion ==
            StartsWithQuestionWord(lowerQuery) \/ EndsWithQuestionMark(Trim(lowerQuery))
        hasNamedEntity ==
            \/ HasCapitalisedPair(query)
            \/ HasFourDigits(query)
            \/ \E term \in timeSensitiveTerms : Includes(lowerQuery, term)
    IN  containsIndicator \/ isQuestion \/ hasNamedEntity

shouldPerformWebSearch(query) ==
    LET lowerQuery == Trim(LowerCase(query))
        containsIndicator ==
            \E indicator \in searchIndicators : Includes(lowerQuery, indicator)
        isQuestion ==
            StartsWithQuestionWord(lowerQuery) \/ EndsWithQuestionMark(Trim(lowerQuery))
        isExcluded ==
            \E pattern \in excludePatterns : Includes(lowerQuery, pattern)
        hasNamedEntity ==
            \/ HasCapitalisedPair(query)
            \/ HasFourDigits(query)
            \/ \E term \in timeSensitiveTerms : Includes(lowerQuery, term)
    IN  (containsIndicator \/ isQuestion \/ hasNamedEntity) /\ ~isExcluded

\* the pieces the queries of the model are made of
QF_WHAT_IS_YOUR == <<"w", "h", "a", "t", " ", "i", "s", " ", "y", "o", "u", "r">>
QF_YOUR_NAME == <<"Y", "o", "u", "r", " ", "N", "a", "m", "e">>
QF_LATEST == <<"l", "a", "t", "e", "s", "t">>
QF_YEAR == <<"2", "0", "2", "5">>
QF_SPACE == <<" ">>
QF_QMARK == <<"?">>
QF_HELLO == <<"h", "e", "l", "l", "o">>
QF_HOW == <<"h", "o", "w">>
QF_DIGITS == <<"2", "0">>
SearchFragments ==
    {QF_WHAT_IS_YOUR, QF_YOUR_NAME, QF_LATEST, QF_YEAR, QF_SPACE, QF_QMARK,
     QF_HELLO, QF_HOW, QF_DIGITS}

\* organic results the provider may answer with
MaxOrganic == 4
\* 'slice(0, 3)'
ResultLimit == 3

searchRest == <<turnVars, planVars, memVars, optVars, chunkVars, kbVars, queryVars,
                llmVars, accVars, consumerVars, histVars>>

\* the client types the query
SearchAppend(f) ==
    /\ spc = "idle"
    /\ searchFrags < MaxQueryFrags
    /\ searchQuery' = searchQuery \o f
    /\ searchFrags' = searchFrags + 1
    /\ UNCHANGED <<spc, serperKey, searchDecision, providerCalls, searchResponse>>
    /\ UNCHANGED searchRest

SearchRespond(status, results, searchPerformed) ==
    /\ spc' = "done"
    /\ searchResponse' =
          [status |-> status, results |-> results, searchPerformed |-> searchPerformed]

\* the request is received: configuration check, query validation, then the
\* heuristic; a query that does not warrant a search is answered at once
SearchPost ==
    /\ spc = "idle"
    /\ IF ~serperKey
       THEN /\ SearchRespond(500, 0, FALSE)
            /\ UNCHANGED searchDecision
       ELSE IF searchQuery = <<>>
       THEN /\ SearchRespond(400, 0, FALSE)
            /\ UNCHANGED searchDecision
       ELSE IF ~shouldPerformWebSearch(searchQuery)
       THEN /\ SearchRespond(200, 0, FALSE)
            /\ searchDecision' = "no"
       ELSE /\ spc' = "provider"
            /\ searchDecision' = "yes"
            /\ UNCHANGED searchResponse
    /\ UNCHANGED <<searchQuery, searchFrags, serperKey, providerCalls>>
    /\ UNCHANGED searchRest

\* the provider answers with n organic results; the first 3 are returned
SearchProviderOk(n) ==
    /\ spc = "provider"
    /\ providerCalls' = providerCalls + 1
    /\ SearchRespond(200, IF n < ResultLimit THEN n ELSE ResultLimit, TRUE)
    /\ UNCHANGED <<searchQuery, searchFrags, serperKey, searchDecision>>
    /\ UNCHANGED searchRest

\* the provider request fails
SearchProviderFail ==
    /\ spc = "provider"
    /\ providerCalls' = providerCalls + 1
    /\ SearchRespond(500, 0, FALSE)
    /\ UNCHANGED <<searchQuery, searchFrags, serperKey, searchDecision>>
    /\ UNCHANGED searchRest

InitSearch ==
    /\ TurnIdle
    /\ PlanIdle
    /\ MemIdle
    /\ OptIdle
    /\ ChunkIdle
    /\ KbIdle
    /\ QueryIdle
    /\ LlmIdle
    /\ AccIdle
    /\ ConsumerIdle
    /\ HistIdle
    /\ spc = "idle"
    /\ searchQuery = <<>>
    /\ searchFrags = 0
    /\ serperKey \in BOOLEAN
    /\ searchDecision = "none"
    /\ providerCalls = 0
    /\ searchResponse = NoSearchResponse

NextSearch ==
    \/ \E f \in SearchFragments : SearchAppend(f)
    \/ SearchPost
    \/ \E n \in 0..MaxOrganic : SearchProviderOk(n)
    \/ SearchProviderFail

SpecSearch == InitSearch /\ [][NextSearch]_vars

\* the query contains the text, whatever the case of its letters
ContainsFolded(s, t) ==
    \E i \in 0..(Len(s) - Len(t)) :
        \A j \in 1..Len(t) : LowerOf(s[i + j]) = LowerOf(t[j])
ContainsExclusion(s) == \E pattern \in excludePatterns : ContainsFolded(s, pattern)
FourDigitYear(s) ==
    \E i \in 1..Len(s) : i + 3 <= Len(s) /\ {s[i], s[i + 1], s[i + 2], s[i + 3]} \subseteq Digits

\* C25: a query containing an exclusion pattern is refused by the heuristic,
\* whatever else it contains, and the endpoint then answers with no results
\* and searchPerformed false without a request to the provider; a query with
\* 'latest' or four digits in a row and no exclusion pattern is accepted.
C25_SearchHeuristic ==
    /\ ContainsExclusion(searchQuery) => ~shouldPerformWebSearch(searchQuery)
    /\ (ContainsExclusion(searchQuery) /\ searchDecision # "none") =>
           /\ searchDecision = "no"
           /\ spc = "done"
           /\ searchResponse = [status |-> 200, results |-> 0, searchPerformed |-> FALSE]
           /\ providerCalls = 0
    /\ (~ContainsExclusion(searchQuery)
          /\ (ContainsFolded(searchQuery, QF_LATEST) \/ FourDigitYear(searchQuery))) =>
           shouldPerformWebSearch(searchQuery)

\* 'what is your' + 'latest' + '2025': a question with an indicator and a
\* year, refused on the exclusion pattern and answered without a search
C25_Witness ==
    /\ searchQuery = QF_WHAT_IS_YOUR \o QF_LATEST \o QF_YEAR
    /\ spc = "done"
    /\ searchDecision = "no"
    /\ searchResponse.status = 200
    /\ providerCalls = 0

-----------------------------------------------------------------------------
(* The client's consumer of the advanced response stream                   *)
(*                                                                         *)
(* The server enqueues TextEncoder().encode(JSON.stringify(..) + '\n') per *)
(* line; the body reaches reader.read() as byte chunks cut anywhere.  The  *)
(* loop decodes each chunk on its own (new TextDecoder().decode(value)),   *)
(* appends it to the buffer, splits the buffer on '\n', keeps the last     *)
(* piece and parses the others.                                            *)

\* lines the server sends in one response
MaxLines == 2

NL == "\n"
\* a character outside ASCII and the two bytes of its UTF-8 encoding
Accented == "U+00E9"
LeadByte == "C3"
ContinuationByte == "A9"
\* U+FFFD, what TextDecoder emits for bytes that are not a complete sequence
Replacement == "U+FFFD"

\* JSON.stringify output of the messages of the model: '{' text '}'
JsonLines ==
    {<<"{", "a", "}">>, <<"{", Accented, "}">>, <<"{", "a", Accented, "b", "}">>}

\* TextEncoder.encode
RECURSIVE Encode(_)
Encode(text) ==
    IF text = <<>> THEN <<>>
    ELSE (IF Head(text) = Accented THEN <<LeadByte, ContinuationByte>>
          ELSE <<Head(text)>>) \o Encode(Tail(text))

\* new TextDecoder().decode(value): one call per chunk, no state kept
\* between calls
RECURSIVE Decode(_)
Decode(bytes) ==
    IF bytes = <<>> THEN <<>>
    ELSE IF Head(bytes) = LeadByte
    THEN IF Len(bytes) >= 2 /\ bytes[2] = ContinuationByte
         THEN <<Accented>> \o Decode(Tail(Tail(bytes)))
         ELSE <<Replacement>> \o Decode(Tail(bytes))
    ELSE IF Head(bytes) = ContinuationByte
    THEN <<Replacement>> \o Decode(Tail(bytes))
    ELSE <<Head(bytes)>> \o Decode(Tail(bytes))

\* String.prototype.split('\n'): the pieces between the separators
RECURSIVE SplitLines(_, _)
SplitLines(text, piece) ==
    IF text = <<>> THEN <<piece>>
    ELSE IF Head(text) = NL THEN <<piece>> \o SplitLines(Tail(text), <<>>)
    ELSE SplitLines(Tail(text), Append(piece, Head(text)))

\* JSON.parse accepts the line
Parses(line) == Len(line) >= 2 /\ Head(line) = "{" /\ line[Len(line)] = "}"

\* the body of a response: every line followed by '\n', encoded
RECURSIVE BodyOf(_)
BodyOf(lines) ==
    IF lines = <<>> THEN <<>>
    ELSE Encode(Append(Head(lines), NL)) \o BodyOf(Tail(lines))

consumerRest == <<turnVars, planVars, memVars, optVars, chunkVars, kbVars, queryVars,
                  llmVars, accVars, searchVars, histVars>>

\* reader.read() resolves with the next k bytes; the loop body runs on them
ConsumerRead(k) ==
    /\ cnpc = "reading"
    /\ k \in 1..Len(wire)
    /\ LET chunk == Decode(SubSeq(wire, 1, k))
           lines == SplitLines(buffer \o chunk, <<>>)
           complete == SubSeq(lines, 1, Len(lines) - 1)
           toParse == SelectSeq(complete, LAMBDA line : Trim(line) # <<>>)
       IN  /\ buffer' = lines[Len(lines)]
           /\ handled' = handled \o SelectSeq(toParse, Parses)
           /\ parseErrors' = parseErrors \o SelectSeq(toParse, LAMBDA line : ~Parses(line))
    /\ wire' = SubSeq(wire, k + 1, Len(wire))
    /\ UNCHANGED <<cnpc, sentLines, streamEnd>>
    /\ UNCHANGED consumerRest

\* reader.read() resolves with done: the loop breaks
ConsumerDone ==
    /\ cnpc = "reading"
    /\ wire = <<>>
    /\ streamEnd = "closed"
    /\ cnpc' = "done"
    /\ UNCHANGED <<sentLines, wire, streamEnd, buffer, handled, parseErrors>>
    /\ UNCHANGED consumerRest

\* the server errored the stream: reader.read() rejects, whatever was not
\* read is lost and the loop is left by the throw
ConsumerReadFails ==
    /\ cnpc = "reading"
    /\ streamEnd = "errored"
    /\ cnpc' = "threw"
    /\ wire' = <<>>
    /\ UNCHANGED <<sentLines, streamEnd, buffer, handled, parseErrors>>
    /\ UNCHANGED consumerRest

InitConsumer ==
    /\ TurnIdle
    /\ PlanIdle
    /\ MemIdle
    /\ OptIdle
    /\ ChunkIdle
    /\ KbIdle
    /\ QueryIdle
    /\ LlmIdle
    /\ AccIdle
    /\ SearchIdle
    /\ HistIdle
    /\ cnpc = "reading"
    /\ sentLines \in UNION {[1..n -> JsonLines] : n \in 0..MaxLines}
    /\ wire = BodyOf(sentLines)
    /\ streamEnd \in {"closed", "errored"}
    /\ buffer = <<>>
    /\ handled = <<>>
    /\ parseErrors = <<>>

NextConsumer ==
    \/ \E k \in 1..Len(wire) : ConsumerRead(k)
    \/ ConsumerDone
    \/ ConsumerReadFails

SpecConsumer == InitConsumer /\ [][NextConsumer]_vars

IsPrefix(s, t) == Len(s) <= Len(t) /\ SubSeq(t, 1, Len(s)) = s

\* C26: however the body is cut into chunks, the lines handled are the lines
\* sent, once each and in order; nothing fails to parse; the buffer holds no
\* complete line between reads; and when the stream closes every line sent
\* has been handled.
C26_LinesHandledOnce ==
    cnpc # "off" =>
        /\ IsPrefix(handled, sentLines)
        /\ parseErrors = <<>>
        /\ \A i \in DOMAIN buffer : buffer[i] # NL
        /\ cnpc = "done" => handled = sentLines

-----------------------------------------------------------------------------
(* createDocumentChunks: termination                                       *)

\* C27: once a chunk whose endPosition is the text length has been pushed,
\* the loop condition is false and createDocumentChunks returns; the loop
\* does not go on past the end of the text.
C27_LoopStopsAtTextEnd ==
    (cpc = "loop" /\ chunks # <<>> /\ LastChunk.endPosition = Len(docContent)) =>
        ~(startPosition < Len(docContent))

-----------------------------------------------------------------------------
(* The placeholder assistant message after the turn                        *)

\* C28: once an advanced turn is over and every store write issued for it
\* has been applied, the placeholder message is not left with empty content
\* and langGraphState 'processing': it carries the final answer, or is marked
\* as failed, or is removed.
C28_PlaceholderSettled ==
    (TurnOver /\ AllWritesApplied /\ persisted.exists) =>
        ~(persisted.content = "" /\ persisted.langGraphState = "processing")

-----------------------------------------------------------------------------
(* Frame conditions of the pipeline stages                                 *)

\* the stage at ppc completes in this step
StageCompletes ==
    /\ ppc \in {"analyze", "plan", "kb", "web", "synth", "respond"}
    /\ ppc' \notin {ppc, "failed"}

\* C30: the two flags are written only by the Plan stage; the KnowledgeQuery
\* and WebSearch stages leave the message history, both flags and the final
\* answer as they were; the final answer is written only by Respond; a stage
\* that completes appends exactly one Step and no step ever alters or removes
\* an earlier Step; the conversationHistory array of the caller is not
\* changed once the handler has received it.
C30_StageFrames ==
    [][ /\ (needsKnowledgeBase' # needsKnowledgeBase \/ needsWebSearch' # needsWebSearch)
             => (ppc = "plan")
        /\ (ppc \in {"kb", "web"})
             => UNCHANGED <<messages, needsKnowledgeBase, needsWebSearch, finalResponse>>
        /\ (finalResponse' # finalResponse /\ advancedThinking) => (ppc = "respond")
        /\ StageCompletes => (Len(thinkingSteps') = Len(thinkingSteps) + 1)
        /\ IsPrefix(thinkingSteps, thinkingSteps')
        /\ (conversationHistory' # conversationHistory) => (rpc = "context")
      ]_vars

\* a turn over a non-empty history went through all six stages
C30_Witness ==
    /\ ppc = "done"
    /\ Len(thinkingSteps) = 6
    /\ needsKnowledgeBase /\ needsWebSearch
    /\ finalResponse = "answer"
    /\ Len(conversationHistory) = MaxHistory
    /\ messages = conversationHistory \o <<"analysis", "planning", "synthesis", "response">>

=============================================================================
